---- MODULE Spec2Model ----
(***************************************************************************)
(* Wallet (src/unnamed/part_000): the RPC dispatch and permission/session  *)
(* engine of the wallet extension: the Wallet class (internal API), its    *)
(* PublicController (origin-facing provider API), the session-decay timer  *)
(* and the dialogs opened through the notification window.                 *)
(*                                                                         *)
(* Conventions.  A nullable object is a sequence of length 0 (null) or 1.  *)
(* A nullable string is "" when null.  The result of a call is a record    *)
(* [err, val]: err is "" on success, else the error kind; val is the value *)
(* returned, as a sequence of strings.  A handler H is modelled by a state *)
(* function H_result(args), what the call returns or throws in the current *)
(* state, and an action H(args), the state change of a call that does not  *)
(* throw before its first assignment.                                      *)
(***************************************************************************)
EXTENDS Integers, Sequences, FiniteSets, TLC

VARIABLES
    id,                       \* Wallet.id
    userCredentials,          \* Wallet.userCredentials (null or one Credentials)
    seedPhraseExpiryTimerId,  \* Wallet.seedPhraseExpiryTimerId (0: none yet)
    timers,                   \* pending setTimeout timers: [id, remaining ms]
    pendingWallet,            \* Wallet.pendingWallet (null or one PendingWallet)
    record,                   \* Wallet.record (null or one WalletRecord)
    walletStore,              \* WalletStore: wallet id -> null or [key, record]
    networks,                 \* chain registry: the chains currently registered
    dialogs,                  \* notification window: the dialogs still open
    settled,                  \* the call settled by the last step, and its effects
    sessionClock,             \* the last updateCredentials call and the time since
    blockedOrigins,           \* phishing defence: the origins marked blocked
    reads,                    \* updateCredentials calls suspended at the store
    now,                      \* Date.now()
    preferences,              \* GlobalPreferences state: providerInjection (null or a map)
    providerInjection,        \* ContentScriptManager.providerInjection
    activated,                \* activate() has attached the change listeners
    alarms,                   \* browser.alarms: time of the provider-injection alarm (null: none)
    scripts,                  \* chrome.scripting: the registered content script (null: none)
    tasks                     \* suspended async calls of the ContentScriptManager

\* The variables of the ContentScriptManager and of the browser under it.
injectionVars == <<now, preferences, providerInjection, activated, alarms, scripts, tasks>>

\* The variables of the wallet, its dialogs and the phishing defence.
walletVars == <<id, userCredentials, seedPhraseExpiryTimerId, timers, pendingWallet,
                record, walletStore, networks, dialogs, settled, sessionClock,
                blockedOrigins, reads>>

vars == <<id, userCredentials, seedPhraseExpiryTimerId, timers, pendingWallet,
          record, walletStore, networks, dialogs, settled, sessionClock,
          blockedOrigins, reads, now, preferences, providerInjection, activated,
          alarms, scripts, tasks>>

(***************************************************************************)
(* Values                                                                  *)
(***************************************************************************)
Null == <<>>
Some(x) == <<x>>

Ok(v) == [err |-> "", val |-> v]
Err(e) == [err |-> e, val |-> <<>>]

INTERNAL_ORIGIN == "chrome-extension://wallet"
INTERNAL_ORIGIN_SYMBOL == "Symbol(INTERNAL_ORIGIN)"
INTERNAL_SYMBOL_CONTEXT == [origin |-> INTERNAL_ORIGIN_SYMBOL]

\* The web origins that call the provider API.
Origins == {"https://a.example", "https://b.example"}
\* context.origin of a call: a web origin, an internal origin, or none ("").
NoOrigin == ""
ExternalContexts == {[origin |-> o] : o \in Origins \cup {NoOrigin}}
InternalContexts == {[origin |-> INTERNAL_ORIGIN], INTERNAL_SYMBOL_CONTEXT}
Contexts == ExternalContexts \cup InternalContexts

\* Account addresses as the key material yields them (mixed case).
Addresses == {"0xAb", "0xCd"}
\* Addresses as callers may write them.
AddressInputs == Addresses \cup {"0xab"}

\* normalizeAddress: lower case.
normalizeAddress(a) ==
    CASE a = "0xAb" -> "0xab"
      [] a = "0xCd" -> "0xcd"
      [] OTHER -> a

toLowerCase(a) == normalizeAddress(a)

\* isEthereumAddress: the strings that parse as an account address.
isEthereumAddress(s) == normalizeAddress(s) \in {"0xab", "0xcd"}

\* Chains and their ids (networks.getChainId / networks.getChainById).
Ethereum == "ethereum"
CustomChain == "polygon"
Chains == {Ethereum, CustomChain}
getChainId(chain) ==
    CASE chain = Ethereum -> "0x1"
      [] chain = CustomChain -> "0x89"
      [] OTHER -> "0x0"
\* hexValue that returns its argument as written.
hexValue_asWritten(p) == p

\* ethers.utils.hexValue: hex without leading zeros.
hexValue(p) ==
    CASE p = "0x01" -> "0x1"
      [] p = "0x089" -> "0x89"
      [] OTHER -> p
ChainIdParams == {"0x1", "0x01", "0x89", "0x089"}
\* networks.getChainById: the registered chain with this id, "" when none
\* (the code throws).
getChainById(chainId) ==
    IF \E c \in networks : getChainId(c) = chainId
    THEN CHOOSE c \in networks : getChainId(c) = chainId
    ELSE ""

\* Wallet ids and the credentials a login can supply.
UserIds == {"u1"}
EncryptionKeyOf(u) == "ek-u1"
SessionCredentialsOf(u) ==
    [id |-> u, encryptionKey |-> EncryptionKeyOf(u),
     seedPhraseEncryptionKey |-> "sk", seedPhraseEncryptionKey_deprecated |-> "skd"]
BareCredentialsOf(u) ==
    [id |-> u, encryptionKey |-> EncryptionKeyOf(u),
     seedPhraseEncryptionKey |-> "", seedPhraseEncryptionKey_deprecated |-> ""]
CredentialInputs == {SessionCredentialsOf(u) : u \in UserIds}
                        \cup {BareCredentialsOf(u) : u \in UserIds}

\* Session timeouts of updateCredentials, in ms.
NewUserTimeout == 1000 * 1800
UserTimeout == 1000 * 120

\* Most dialogs open at one time.
MaxDialogs == 1
\* Most account requests pending at one time where requests overlap.
MaxPending == 2

(***************************************************************************)
(* WalletRecordModel (./WalletRecord): pure functions over a WalletRecord  *)
(* [currentAddress, groups, permissions]; permissions maps an origin to    *)
(* [address, chain].                                                       *)
(***************************************************************************)
Group(origin, kind, address) == [origin |-> origin, kind |-> kind, address |-> address]

createOrUpdateRecord(rec, pending) ==
    IF rec = Null
    THEN [currentAddress |-> pending.address,
          groups |-> {Group(pending.origin, pending.kind, pending.address)},
          permissions |-> <<>>]
    ELSE [rec[1] EXCEPT !.groups =
              @ \cup {Group(pending.origin, pending.kind, pending.address)}]

addPermission(r, address, origin) ==
    [r EXCEPT !.permissions =
        (origin :> [address |-> normalizeAddress(address),
                    chain |-> IF origin \in DOMAIN @ THEN @[origin].chain
                              ELSE Ethereum]) @@ @]

removePermission(r, origin, address) ==
    IF origin \in DOMAIN r.permissions
       /\ (address = "" \/ r.permissions[origin].address = normalizeAddress(address))
    THEN [r EXCEPT !.permissions =
              [o \in (DOMAIN @) \ {origin} |-> @[o]]]
    ELSE r

removeAllOriginPermissions(r) == [r EXCEPT !.permissions = <<>>]

isAccountAvailable(r, address, origin) ==
    /\ origin \in DOMAIN r.permissions
    /\ address # ""
    /\ r.permissions[origin].address = normalizeAddress(address)

setCurrentAddress(r, address) == [r EXCEPT !.currentAddress = address]

setChainForOrigin(r, chain, origin) ==
    [r EXCEPT !.permissions =
        (origin :> [address |-> IF origin \in DOMAIN @ THEN @[origin].address ELSE "",
                    chain |-> chain]) @@ @]

getChainForOrigin(r, origin) ==
    IF origin \in DOMAIN r.permissions THEN r.permissions[origin].chain ELSE Ethereum

getPermissionsByChain(r, chain) ==
    {o \in DOMAIN r.permissions : r.permissions[o].chain = chain}

isSessionCredentials(c) == c.seedPhraseEncryptionKey # ""

(***************************************************************************)
(* Wallet: private helpers                                                 *)
(***************************************************************************)
readCurrentAddress == IF record = Null THEN "" ELSE record[1].currentAddress

\* ensureCurrentAddress / ensureRecord / ensureActiveSession / verifyInternalOrigin
\* throw unless the condition below holds.
ensureCurrentAddress == readCurrentAddress # ""

ensureRecord(rec) == rec # Null

\* ensureActiveSession that accepts any credentials.
ensureActiveSession_anyCredentials(credentials) == credentials # Null

ensureActiveSession(credentials) ==
    credentials # Null /\ isSessionCredentials(credentials[1])

verifyInternalOrigin(context) ==
    context.origin = INTERNAL_ORIGIN \/ context.origin = INTERNAL_ORIGIN_SYMBOL

\* allowedOrigin that asks only whether the origin holds some permission.
allowedOrigin_anyAddress(context, address) ==
    IF context.origin = NoOrigin THEN "Error"
    ELSE IF context.origin = INTERNAL_ORIGIN THEN "true"
    ELSE IF record = Null THEN "false"
    ELSE IF context.origin \in DOMAIN record[1].permissions THEN "true"
    ELSE "false"

\* allowedOrigin: "Error" when it throws, else "true" or "false".
allowedOrigin(context, address) ==
    IF context.origin = NoOrigin THEN "Error"
    ELSE IF context.origin = INTERNAL_ORIGIN THEN "true"
    ELSE IF record = Null THEN "false"
    ELSE IF isAccountAvailable(record[1], address, context.origin) THEN "true"
    ELSE "false"

\* updateWalletStore: the store after the save; nothing is saved (the call
\* throws, and no caller awaits it) when the credentials are null.
updateWalletStore(rec) ==
    IF userCredentials = Null THEN walletStore
    ELSE (id :> Some([key |-> userCredentials[1].encryptionKey, record |-> rec]))
             @@ walletStore

\* walletStore.read(id, credentials)
readWalletStore(store, walletId) ==
    IF walletId \in DOMAIN store /\ store[walletId] # Null
    THEN Some(store[walletId][1].record)
    ELSE Null

\* removeSeedPhraseEncryptionKey that drops the credentials altogether.
\* removeSeedPhraseEncryptionKey that leaves the credentials as they are.
removeSeedPhraseEncryptionKey_keepsKey(credentials) == credentials

removeSeedPhraseEncryptionKey_dropAll(credentials) == Null

\* removeSeedPhraseEncryptionKey: the credentials afterwards.
removeSeedPhraseEncryptionKey(credentials) ==
    IF credentials # Null
    THEN Some([credentials[1] EXCEPT !.seedPhraseEncryptionKey = "",
                                     !.seedPhraseEncryptionKey_deprecated = ""])
    ELSE credentials

\* setTimeout hands out an id no pending timer has.
FreshTimerId(pending) ==
    CHOOSE n \in 1..(Cardinality(pending) + 1) : \A t \in pending : t.id # n

\* setExpirationForSeedPhraseEncryptionKey without the clearTimeout.
setExpirationForSeedPhraseEncryptionKey_noClear(timeout) ==
    LET fresh == FreshTimerId(timers)
    IN  [timers |-> timers \cup {[id |-> fresh, remaining |-> timeout]},
         timerId |-> fresh]

\* setExpirationForSeedPhraseEncryptionKey: clearTimeout of the timer armed
\* before, then setTimeout: the pending timers and the new timer's id.
setExpirationForSeedPhraseEncryptionKey(timeout) ==
    LET kept == {t \in timers : t.id # seedPhraseExpiryTimerId}
        fresh == FreshTimerId(kept)
    IN  [timers |-> kept \cup {[id |-> fresh, remaining |-> timeout]},
         timerId |-> fresh]

\* The two timeouts the other way round.
SessionTimeout_swapped(isNewUser) == IF isNewUser THEN UserTimeout ELSE NewUserTimeout

SessionTimeout(isNewUser) == IF isNewUser THEN NewUserTimeout ELSE UserTimeout

\* What was left on the timer that clearTimeout cancels, when that timer was
\* due before the one armed now; 0 otherwise.
CancelledRemaining(timeout) ==
    IF \E t \in timers : t.id = seedPhraseExpiryTimerId /\ t.remaining < timeout
    THEN (CHOOSE t \in timers : t.id = seedPhraseExpiryTimerId).remaining
    ELSE 0

(***************************************************************************)
(* Wallet: credentials and the session-decay timer                         *)
(***************************************************************************)
updateCredentials(credentials, isNewUser) ==
    LET armed == setExpirationForSeedPhraseEncryptionKey(SessionTimeout(isNewUser))
    IN
    /\ id' = credentials.id
    /\ userCredentials' = Some(credentials)
    /\ timers' = armed.timers
    /\ seedPhraseExpiryTimerId' = armed.timerId
    /\ record' = readWalletStore(walletStore, credentials.id)
    /\ sessionClock' = Some([isNewUser |-> isNewUser, elapsed |-> 0,
                             withKey |-> isSessionCredentials(credentials),
                             cancelled |-> CancelledRemaining(SessionTimeout(isNewUser))])
    /\ settled' = Null
    /\ UNCHANGED <<pendingWallet, walletStore, networks, dialogs,
                   blockedOrigins, reads, injectionVars>>

\* The updateCredentials calls that may be suspended at the store together.
MaxReads == 2

\* A call suspended before its read, and one whose read of walletId is
\* under way.
ReadyToRead == [stage |-> "ready", walletId |-> ""]
Reading(walletId) == [stage |-> "reading", walletId |-> walletId]

\* The suspended calls without the i-th.
Resumed(i) == [j \in 1 .. Len(reads) - 1 |-> IF j < i THEN reads[j] ELSE reads[j + 1]]

\* updateCredentials up to its first await: the credentials are taken and the
\* timer armed; the call is suspended at walletStore.ready().
updateCredentials_suspended(credentials, isNewUser) ==
    LET armed == setExpirationForSeedPhraseEncryptionKey(SessionTimeout(isNewUser))
    IN
    /\ Len(reads) < MaxReads
    /\ id' = credentials.id
    /\ userCredentials' = Some(credentials)
    /\ timers' = armed.timers
    /\ seedPhraseExpiryTimerId' = armed.timerId
    /\ sessionClock' = Some([isNewUser |-> isNewUser, elapsed |-> 0,
                             withKey |-> isSessionCredentials(credentials),
                             cancelled |-> CancelledRemaining(SessionTimeout(isNewUser))])
    /\ reads' = Append(reads, ReadyToRead)
    /\ settled' = Null
    /\ UNCHANGED <<pendingWallet, record, walletStore, networks, dialogs,
                   blockedOrigins, injectionVars>>

\* syncWithWalletStore of the i-th suspended call, resumed once the store is
\* ready: it returns without credentials, and otherwise starts the read for
\* the id the wallet has now.
syncWithWalletStore_read(i) ==
    /\ i \in DOMAIN reads
    /\ reads[i].stage = "ready"
    /\ reads' = IF userCredentials = Null THEN Resumed(i)
                ELSE [reads EXCEPT ![i] = Reading(id)]
    /\ settled' = Null
    /\ UNCHANGED <<id, userCredentials, seedPhraseExpiryTimerId, timers,
                   pendingWallet, record, walletStore, networks, dialogs,
                   sessionClock, blockedOrigins, injectionVars>>

\* The record the read of the i-th suspended call resolves with.
syncWithWalletStore_record(i) == readWalletStore(walletStore, reads[i].walletId)

\* recordUpdated is emitted when the read resolved with a record.
syncWithWalletStore_recordUpdated(i) == syncWithWalletStore_record(i) # Null

\* The read of the i-th suspended call resolves, whichever one it is: the
\* record is assigned and the call returns.
syncWithWalletStore(i) ==
    /\ i \in DOMAIN reads
    /\ reads[i].stage = "reading"
    /\ record' = syncWithWalletStore_record(i)
    /\ reads' = Resumed(i)
    /\ settled' = Null
    /\ UNCHANGED <<id, userCredentials, seedPhraseExpiryTimerId, timers,
                   pendingWallet, walletStore, networks, dialogs,
                   sessionClock, blockedOrigins, injectionVars>>

resetCredentials ==
    /\ userCredentials' = Null
    /\ sessionClock' = Null
    /\ settled' = Null
    /\ UNCHANGED <<id, seedPhraseExpiryTimerId, timers, pendingWallet, record,
                   walletStore, networks, dialogs,
                   blockedOrigins, reads, injectionVars>>

\* d ms pass: every timer due within d fires (its callback is
\* removeSeedPhraseEncryptionKey), the others come d ms closer.
Tick(d) ==
    LET due == {t \in timers : t.remaining <= d} IN
    /\ d > 0
    /\ timers' = {[t EXCEPT !.remaining = @ - d] : t \in timers \ due}
    /\ userCredentials' = IF due # {} THEN removeSeedPhraseEncryptionKey(userCredentials)
                          ELSE userCredentials
    /\ sessionClock' = IF sessionClock = Null THEN Null
                       ELSE Some([sessionClock[1] EXCEPT !.elapsed = @ + d])
    /\ settled' = Null
    /\ UNCHANGED <<id, seedPhraseExpiryTimerId, pendingWallet, record, walletStore,
                   networks, dialogs,
                   blockedOrigins, reads, injectionVars>>

(***************************************************************************)
(* Wallet: pending wallet                                                  *)
(***************************************************************************)
PendingWalletOf(origin, kind, address) ==
    [origin |-> origin, kind |-> kind, address |-> address]

SetPendingWallet(pending) ==
    /\ pendingWallet' = Some(pending)
    /\ settled' = Null
    /\ UNCHANGED <<id, userCredentials, seedPhraseExpiryTimerId, timers, record,
                   walletStore, networks, dialogs, sessionClock,
                   blockedOrigins, reads, injectionVars>>

uiGenerateMnemonic_result(context) ==
    IF ~ensureActiveSession(userCredentials) THEN Err("SessionExpired")
    ELSE Ok(<<"wallet">>)

uiGenerateMnemonic(context, address) ==
    /\ uiGenerateMnemonic_result(context).err = ""
    /\ SetPendingWallet(PendingWalletOf("extension", "mnemonic", address))

uiImportPrivateKey_result(context) == Ok(<<"wallet">>)

uiImportPrivateKey(context, address) ==
    /\ uiImportPrivateKey_result(context).err = ""
    /\ SetPendingWallet(PendingWalletOf("imported", "privateKey", address))

uiImportSeedPhrase_result(context) ==
    IF ~ensureActiveSession(userCredentials) THEN Err("SessionExpired")
    ELSE Ok(<<"wallet">>)

uiImportSeedPhrase(context, address) ==
    /\ uiImportSeedPhrase_result(context).err = ""
    /\ SetPendingWallet(PendingWalletOf("imported", "mnemonic", address))

\* accounts: the addresses of the device accounts to import.
uiImportHardwareWallet_result(context, accounts) ==
    IF accounts = <<>> THEN Err("Error") ELSE Ok(<<"wallet">>)

uiImportHardwareWallet(context, accounts) ==
    /\ uiImportHardwareWallet_result(context, accounts).err = ""
    /\ SetPendingWallet(PendingWalletOf("imported", "hardware", accounts[1]))

savePendingWallet_result(context) ==
    IF pendingWallet = Null THEN Err("Error")
    ELSE IF userCredentials = Null THEN Err("Error")
    ELSE Ok(<<>>)

savePendingWallet(context) ==
    LET saved == createOrUpdateRecord(record, pendingWallet[1]) IN
    /\ savePendingWallet_result(context).err = ""
    /\ record' = Some(saved)
    /\ pendingWallet' = Null
    /\ userCredentials' = removeSeedPhraseEncryptionKey(userCredentials)
    /\ walletStore' = updateWalletStore(saved)
    /\ sessionClock' = Null
    /\ settled' = Null
    /\ UNCHANGED <<id, seedPhraseExpiryTimerId, timers, networks, dialogs,
                   blockedOrigins, reads, injectionVars>>

getPendingWallet_result(context) ==
    IF ~verifyInternalOrigin(context) THEN Err("OriginNotAllowed")
    ELSE IF pendingWallet = Null THEN Ok(<<"null">>)
    ELSE Ok(<<pendingWallet[1].address>>)

(***************************************************************************)
(* Wallet: secrets, gated by ensureActiveSession                           *)
(***************************************************************************)
HasMnemonicGroup(r, groupId) ==
    \E g \in r.groups : g.kind = "mnemonic" /\ g.address = groupId

HasPrivateKey(r, address) ==
    \E g \in r.groups : g.kind # "hardware"
                           /\ normalizeAddress(g.address) = normalizeAddress(address)

getPendingRecoveryPhrase_result(context) ==
    IF ~verifyInternalOrigin(context) THEN Err("OriginNotAllowed")
    ELSE IF ~ensureActiveSession(userCredentials) THEN Err("SessionExpired")
    ELSE IF pendingWallet = Null THEN Ok(<<"null">>)
    ELSE IF pendingWallet[1].kind # "mnemonic" THEN Err("Error")
    ELSE Ok(<<"secret">>)

getRecoveryPhrase_result(context, groupId) ==
    IF ~verifyInternalOrigin(context) THEN Err("OriginNotAllowed")
    ELSE IF ~ensureRecord(record) THEN Err("RecordNotFound")
    ELSE IF ~ensureActiveSession(userCredentials) THEN Err("SessionExpired")
    ELSE IF ~HasMnemonicGroup(record[1], groupId) THEN Err("Error")
    ELSE Ok(<<"secret">>)

verifyRecoveryPhrase_result(context, groupId, value) ==
    IF ~verifyInternalOrigin(context) THEN Err("OriginNotAllowed")
    ELSE IF ~ensureRecord(record) THEN Err("RecordNotFound")
    ELSE IF ~ensureActiveSession(userCredentials) THEN Err("SessionExpired")
    ELSE IF ~HasMnemonicGroup(record[1], groupId) THEN Err("Error")
    ELSE Ok(<<IF value = "phrase" THEN "true" ELSE "false">>)

getPrivateKey_result(context, address) ==
    IF ~verifyInternalOrigin(context) THEN Err("OriginNotAllowed")
    ELSE IF ~ensureRecord(record) THEN Err("RecordNotFound")
    ELSE IF ~ensureActiveSession(userCredentials) THEN Err("SessionExpired")
    ELSE IF ~HasPrivateKey(record[1], address) THEN Err("Error")
    ELSE Ok(<<"secret">>)

verifyPrivateKey_result(context, address, value) ==
    IF ~verifyInternalOrigin(context) THEN Err("OriginNotAllowed")
    ELSE IF ~ensureRecord(record) THEN Err("RecordNotFound")
    ELSE IF ~ensureActiveSession(userCredentials) THEN Err("SessionExpired")
    ELSE IF ~HasPrivateKey(record[1], address) THEN Err("Error")
    ELSE Ok(<<IF value = "key" THEN "true" ELSE "false">>)

(***************************************************************************)
(* Wallet: permissions, current address, chains                            *)
(***************************************************************************)
\* The record is replaced and saved; nothing else changes.
SetRecord(rec) ==
    /\ record' = Some(rec)
    /\ walletStore' = updateWalletStore(rec)
    /\ UNCHANGED <<id, userCredentials, seedPhraseExpiryTimerId, timers,
                   pendingWallet, networks, dialogs, sessionClock,
                   blockedOrigins, reads, injectionVars>>

RecordOp_result(context) ==
    IF ~verifyInternalOrigin(context) THEN Err("OriginNotAllowed")
    ELSE IF ~ensureRecord(record) THEN Err("RecordNotFound")
    ELSE Ok(<<>>)

acceptOrigin_result(context, origin, address) == RecordOp_result(context)

acceptOrigin(context, origin, address) ==
    /\ acceptOrigin_result(context, origin, address).err = ""
    /\ SetRecord(addPermission(record[1], address, origin))
    /\ settled' = Null

removeAllOriginPermissions_result(context) == RecordOp_result(context)

Wallet_removeAllOriginPermissions(context) ==
    /\ removeAllOriginPermissions_result(context).err = ""
    /\ SetRecord(removeAllOriginPermissions(record[1]))
    /\ settled' = Null

removePermission_result(context, origin, address) == RecordOp_result(context)

Wallet_removePermission(context, origin, address) ==
    /\ removePermission_result(context, origin, address).err = ""
    /\ SetRecord(removePermission(record[1], origin, address))
    /\ settled' = Null

isAccountAvailableToOrigin_result(context, address, origin) ==
    IF ~verifyInternalOrigin(context) THEN Err("OriginNotAllowed")
    ELSE IF record = Null THEN Ok(<<"false">>)
    ELSE Ok(<<IF isAccountAvailable(record[1], address, origin)
              THEN "true" ELSE "false">>)

setCurrentAddress_result(context, address) == RecordOp_result(context)

Wallet_setCurrentAddress(context, address) ==
    /\ setCurrentAddress_result(context, address).err = ""
    /\ SetRecord(setCurrentAddress(record[1], address))
    /\ settled' = Null

setPreferences_result(context) == RecordOp_result(context)

\* setChainForOrigin that writes a new permission entry, without the address.
Wallet_setChainForOrigin_newEntry(rec, chain, origin) ==
    [rec EXCEPT !.permissions = (origin :> [address |-> "", chain |-> chain]) @@ @]

\* Wallet.setChainForOrigin(chain, origin): the record afterwards.
Wallet_setChainForOrigin(rec, chain, origin) == setChainForOrigin(rec, chain, origin)

switchChainForOrigin_result(context, chain, origin) == RecordOp_result(context)

switchChainForOrigin(context, chain, origin) ==
    /\ switchChainForOrigin_result(context, chain, origin).err = ""
    /\ SetRecord(Wallet_setChainForOrigin(record[1], chain, origin))
    /\ settled' = Null

\* getChainIdForOrigin that answers the default chain for an origin without
\* an account permission.
getChainIdForOrigin_ifPermitted(origin) ==
    IF record = Null
       \/ ~(\E a \in Addresses : isAccountAvailable(record[1], a, origin))
    THEN "0x1"
    ELSE getChainId(getChainForOrigin(record[1], origin))

getChainIdForOrigin(origin) ==
    IF record = Null THEN "0x1"
    ELSE getChainId(getChainForOrigin(record[1], origin))

addEthereumChain_result(context, chain, origin) ==
    IF ~verifyInternalOrigin(context) THEN Err("OriginNotAllowed")
    ELSE Ok(<<chain>>)

addEthereumChain(context, chain, origin) ==
    /\ addEthereumChain_result(context, chain, origin).err = ""
    /\ networks' = networks \cup {chain}
    /\ settled' = Null
    /\ UNCHANGED <<id, userCredentials, seedPhraseExpiryTimerId, timers,
                   pendingWallet, record, walletStore, dialogs, sessionClock,
                   blockedOrigins, reads, injectionVars>>

\* The chainChanged event Wallet.setChainForOrigin emits.
Wallet_setChainForOrigin_chainChanged(chain, origin) ==
    <<[chain |-> chain, origin |-> origin]>>

\* The chainChanged event Wallet.addEthereumChain emits once the chain is
\* registered.
addEthereumChain_chainChanged(context, chain, origin) ==
    IF addEthereumChain_result(context, chain, origin).err # "" THEN <<>>
    ELSE <<[chain |-> chain, origin |-> origin]>>

removeEthereumChain_result(context, chain) == RecordOp_result(context)

\* Every permission bound to the removed chain is rebound to Ethereum, one
\* setChainForOrigin after the other; verifyOverviewChain then saves the record.
RECURSIVE RebindAll(_, _)
RebindAll(rec, origins) ==
    IF origins = {} THEN rec
    ELSE LET o == CHOOSE x \in origins : TRUE
         IN  RebindAll(Wallet_setChainForOrigin(rec, Ethereum, o), origins \ {o})

removeEthereumChain(context, chain) ==
    LET rebound == RebindAll(record[1], getPermissionsByChain(record[1], chain)) IN
    /\ removeEthereumChain_result(context, chain).err = ""
    /\ networks' = networks \ {chain}
    /\ record' = Some(rebound)
    /\ walletStore' = updateWalletStore(rebound)
    /\ settled' = Null
    /\ UNCHANGED <<id, userCredentials, seedPhraseExpiryTimerId, timers,
                   pendingWallet, dialogs, sessionClock,
                   blockedOrigins, reads, injectionVars>>

(***************************************************************************)
(* Wallet: the transaction pipeline                                        *)
(***************************************************************************)
\* A transaction as the pipeline reads it: the sender and the chain id, each
\* "" when the field is missing.
Tx(from, chainId) == [from |-> from, chainId |-> chainId]
TxChainIds == {"", "0x1", "0x89"}
getTransactionChainId(transaction) == transaction.chainId

\* The initiators a pipeline call names, and new URL(initiator).origin.
SwapPage == "https://a.example/swap"
Initiators == {INTERNAL_ORIGIN, SwapPage, "https://b.example"}
UrlOrigin(initiator) == IF initiator = SwapPage THEN "https://a.example" ELSE initiator

ensureStringOrigin(context) ==
    verifyInternalOrigin(context) /\ context.origin # INTERNAL_ORIGIN_SYMBOL

\* What a pipeline call did besides returning: the chain id it resolved, the
\* chain id of the provider its signer was connected to, whether it handed a
\* transaction to the provider, and the transactionSent events it emitted
\* (each the initiator it carries).  "" stands for none.
Effects(chainId, signer, submitted, transactionSent) ==
    [chainId |-> chainId, signer |-> signer, submitted |-> submitted,
     transactionSent |-> transactionSent]
NoEffects == Effects("", "", FALSE, <<>>)
Outcome(result, effects) == [result |-> result, effects |-> effects]

\* Model.getSignerWalletByAddress: whether the record holds key material for
\* the address.
getSignerWalletByAddress(r, address) == HasPrivateKey(r, address)

\* getSigner: the chain id of the provider the signer is connected to.
getSigner(chainId) ==
    IF record = Null THEN Err("RecordNotFound")
    ELSE IF readCurrentAddress = ""
            \/ ~getSignerWalletByAddress(record[1], readCurrentAddress)
         THEN Err("Error")
    ELSE IF getChainById(chainId) = "" THEN Err("Error")
    ELSE Ok(<<getChainId(getChainById(chainId))>>)

\* Chain resolution that takes the transaction's chain id whenever it has one.
Wallet_sendTransaction_chainId_noMismatchCheck(incomingTransaction, initiator) ==
    LET txChainId == getTransactionChainId(incomingTransaction) IN
    IF txChainId # "" THEN Ok(<<txChainId>>)
    ELSE IF initiator = INTERNAL_ORIGIN THEN Err("Error")
    ELSE Ok(<<getChainIdForOrigin(UrlOrigin(initiator))>>)

\* The chain id Wallet.sendTransaction settles on for a transaction.
Wallet_sendTransaction_chainId(incomingTransaction, initiator) ==
    LET dappChainId == getChainIdForOrigin(UrlOrigin(initiator))
        txChainId == getTransactionChainId(incomingTransaction)
    IN  IF initiator = INTERNAL_ORIGIN
        THEN IF txChainId = "" THEN Err("Error") ELSE Ok(<<txChainId>>)
        ELSE IF txChainId # ""
             THEN IF dappChainId # txChainId THEN Err("Error") ELSE Ok(<<txChainId>>)
             ELSE Ok(<<dappChainId>>)

\* Wallet.sendTransaction that does not look at the sender.
Wallet_sendTransaction_anySender(incomingTransaction, context, initiator, accepted) ==
    LET resolved == Wallet_sendTransaction_chainId(incomingTransaction, initiator)
        signer == getSigner(resolved.val[1])
    IN  IF ~verifyInternalOrigin(context) THEN Outcome(Err("OriginNotAllowed"), NoEffects)
        ELSE IF resolved.err # "" THEN Outcome(resolved, NoEffects)
        ELSE IF signer.err # ""
             THEN Outcome(signer, Effects(resolved.val[1], "", FALSE, <<>>))
        ELSE IF accepted
             THEN Outcome(Ok(<<"safeTx">>),
                          Effects(resolved.val[1], signer.val[1], TRUE, <<initiator>>))
        ELSE Outcome(Err("EthersError"),
                     Effects(resolved.val[1], signer.val[1], TRUE, <<>>))

\* Wallet.sendTransaction; accepted: whether the provider takes the
\* transaction.
Wallet_sendTransaction(incomingTransaction, context, initiator, accepted) ==
    IF ~verifyInternalOrigin(context) THEN Outcome(Err("OriginNotAllowed"), NoEffects)
    ELSE IF incomingTransaction.from = "" THEN Outcome(Err("Error"), NoEffects)
    ELSE IF ~ensureCurrentAddress THEN Outcome(Err("Error"), NoEffects)
    ELSE IF normalizeAddress(incomingTransaction.from) # normalizeAddress(readCurrentAddress)
         THEN Outcome(Err("Error"), NoEffects)
    ELSE LET resolved == Wallet_sendTransaction_chainId(incomingTransaction, initiator)
             signer == getSigner(resolved.val[1])
         IN  IF resolved.err # "" THEN Outcome(resolved, NoEffects)
             ELSE IF signer.err # ""
                  THEN Outcome(signer, Effects(resolved.val[1], "", FALSE, <<>>))
             ELSE IF accepted
                  THEN Outcome(Ok(<<"safeTx">>),
                               Effects(resolved.val[1], signer.val[1], TRUE, <<initiator>>))
             ELSE Outcome(Err("EthersError"),
                          Effects(resolved.val[1], signer.val[1], TRUE, <<>>))

\* transaction: params[0], Null when missing.
signAndSendTransaction_outcome(context, transaction, initiator, accepted) ==
    IF ~verifyInternalOrigin(context) THEN Outcome(Err("OriginNotAllowed"), NoEffects)
    ELSE IF ~ensureStringOrigin(context) THEN Outcome(Err("Error"), NoEffects)
    ELSE IF transaction = Null THEN Outcome(Err("InvalidParams"), NoEffects)
    ELSE Wallet_sendTransaction(transaction[1], context, initiator, accepted)

\* A pipeline call from entry to return: the call and what it did are what
\* the step settles; nothing of the wallet is assigned.
PipelineCall(method, initiator, address, outcome) ==
    /\ settled' = Some([origin |-> initiator, method |-> method, route |-> "",
                        how |-> "call", address |-> address,
                        result |-> outcome.result, effects |-> outcome.effects])
    /\ UNCHANGED <<id, userCredentials, seedPhraseExpiryTimerId, timers,
                   pendingWallet, record, walletStore, networks, dialogs,
                   sessionClock,
                   blockedOrigins, reads, injectionVars>>

signAndSendTransaction(context, transaction, initiator, accepted) ==
    PipelineCall("signAndSendTransaction", initiator,
                 IF transaction = Null THEN "" ELSE transaction[1].from,
                 signAndSendTransaction_outcome(context, transaction, initiator, accepted))

\* sendSignedTransaction that emits transactionSent whatever the provider says.
sendSignedTransaction_outcome_alwaysEmits(context, chain, initiator, accepted) ==
    LET chainId == getChainId(chain) IN
    IF ~verifyInternalOrigin(context) THEN Outcome(Err("OriginNotAllowed"), NoEffects)
    ELSE IF ~ensureStringOrigin(context) THEN Outcome(Err("Error"), NoEffects)
    ELSE IF getChainById(chainId) = ""
         THEN Outcome(Err("Error"), Effects(chainId, "", FALSE, <<>>))
    ELSE Outcome(IF accepted THEN Ok(<<"safeTx">>) ELSE Err("EthersError"),
                 Effects(chainId, "", TRUE, <<initiator>>))

sendSignedTransaction_outcome(context, chain, initiator, accepted) ==
    LET chainId == getChainId(chain) IN
    IF ~verifyInternalOrigin(context) THEN Outcome(Err("OriginNotAllowed"), NoEffects)
    ELSE IF ~ensureStringOrigin(context) THEN Outcome(Err("Error"), NoEffects)
    ELSE IF getChainById(chainId) = ""
         THEN Outcome(Err("Error"), Effects(chainId, "", FALSE, <<>>))
    ELSE IF accepted
         THEN Outcome(Ok(<<"safeTx">>), Effects(chainId, "", TRUE, <<initiator>>))
    ELSE Outcome(Err("EthersError"), Effects(chainId, "", TRUE, <<>>))

sendSignedTransaction(context, chain, initiator, accepted) ==
    PipelineCall("sendSignedTransaction", initiator, "",
                 sendSignedTransaction_outcome(context, chain, initiator, accepted))

(***************************************************************************)
(* PublicController: the provider API                                      *)
(***************************************************************************)
RequestIds == {"1"}
\* personal_sign messages; isSiweLike holds of the sign-in one.
SiweMessage == "a.example wants you to sign in with your Ethereum account"
Messages == {"hello", SiweMessage}
isSiweLike(message) == message = SiweMessage

\* What a call that opens a dialog has returned so far: a pending promise.
Pending(route) == [err |-> "", val |-> <<"(pending)", route>>]
IsPending(result) == result.err = "" /\ Len(result.val) = 2 /\ result.val[1] = "(pending)"
\* A promise that is never settled.
Unsettled == [err |-> "(unsettled)", val |-> <<>>]

DialogOf(origin, requestId, route, method, param) ==
    [origin |-> origin, id |-> requestId, route |-> route, method |-> method,
     param |-> param, check |-> "none"]

\* notificationWindow.open: one more dialog, keyed by origin:id, while fewer
\* than cap dialogs are open.
OpenDialogWithin(dialog, cap) ==
    /\ Cardinality(dialogs) < cap
    /\ \A d \in dialogs : <<d.origin, d.id>> # <<dialog.origin, dialog.id>>
    /\ dialogs' = dialogs \cup {dialog}
    /\ settled' = Null
    /\ UNCHANGED <<id, userCredentials, seedPhraseExpiryTimerId, timers,
                   pendingWallet, record, walletStore, networks, sessionClock,
                   blockedOrigins, reads, injectionVars>>

OpenDialog(dialog) == OpenDialogWithin(dialog, MaxDialogs)

\* A dialog with the phishing check of its origin running beside it.
Raced(dialog) == [dialog EXCEPT !.check = "pending"]

\* safeOpenDialogWindow: the dialog is opened and checkDapp(origin) is started.
safeOpenDialogWindowWithin(origin, dialog, cap) ==
    /\ origin = dialog.origin
    /\ OpenDialogWithin(Raced(dialog), cap)

safeOpenDialogWindow(origin, dialog) ==
    safeOpenDialogWindowWithin(origin, dialog, MaxDialogs)

\* The call a dialog step settles: how the dialog ended ("resolve", "dismiss"),
\* the address it handed over ("" when none) and the call's result.
Settle(dialog, how, address, result) ==
    Some([origin |-> dialog.origin, method |-> dialog.method, route |-> dialog.route,
          how |-> how, address |-> address, result |-> result,
          effects |-> NoEffects])

eth_accounts(context) ==
    LET currentAddress == readCurrentAddress IN
    IF currentAddress = "" THEN Ok(<<>>)
    ELSE LET allowed == allowedOrigin(context, currentAddress) IN
         IF allowed = "Error" THEN Err("Error")
         ELSE IF allowed = "true" THEN Ok(<<currentAddress>>)
         ELSE Ok(<<>>)

eth_requestAccounts_result(context) ==
    LET currentAddress == readCurrentAddress
        allowed == IF currentAddress = "" THEN "false"
                   ELSE allowedOrigin(context, currentAddress)
    IN  IF allowed = "Error" THEN Err("Error")
        ELSE IF allowed = "true" THEN Ok(<<toLowerCase(currentAddress)>>)
        ELSE IF context.origin = NoOrigin THEN Err("Error")
        ELSE Pending("/requestAccounts")

\* eth_requestAccounts while fewer than cap dialogs are open.
eth_requestAccounts_within(context, requestId, cap) ==
    /\ IsPending(eth_requestAccounts_result(context))
    /\ safeOpenDialogWindowWithin(context.origin,
           DialogOf(context.origin, requestId, "/requestAccounts",
                           "eth_requestAccounts", ""), cap)

eth_requestAccounts(context, requestId) ==
    eth_requestAccounts_within(context, requestId, MaxDialogs)

\* The keys a wallet_requestPermissions call names in params[0]; "" when
\* the call carries no params[0].
PermissionParams == {"eth_accounts", "eth_coinbase", ""}

generatePermissionResponse(params) ==
    IF params = "eth_accounts" THEN Ok(<<"eth_accounts">>)
    ELSE Err("InvalidParams")

getIsAllowedOrigin(context) ==
    LET currentAddress == readCurrentAddress IN
    IF currentAddress = "" THEN "false"
    ELSE allowedOrigin(context, currentAddress)

\* The parameters are looked at once eth_requestAccounts has returned.
wallet_requestPermissions_result(context, params) ==
    LET accounts == eth_requestAccounts_result(context) IN
    IF accounts.err # "" \/ IsPending(accounts) THEN accounts
    ELSE generatePermissionResponse(params)

wallet_requestPermissions(context, requestId, params) ==
    /\ IsPending(eth_requestAccounts_result(context))
    /\ safeOpenDialogWindow(context.origin,
           DialogOf(context.origin, requestId, "/requestAccounts",
                           "wallet_requestPermissions", params))

wallet_getPermissions(context) ==
    LET allowed == getIsAllowedOrigin(context) IN
    IF allowed \notin {"true", "false"} THEN Err(allowed)
    ELSE IF allowed = "true" THEN Ok(<<"eth_accounts">>)
    ELSE Ok(<<>>)

eth_chainId(context) ==
    IF context.origin = NoOrigin THEN Err("Error")
    ELSE Ok(<<getChainIdForOrigin(context.origin)>>)

\* String(parseInt(chainId)): the chain id in decimal.
parseInt(chainId) ==
    CASE chainId = "0x1" -> "1"
      [] chainId = "0x89" -> "137"
      [] chainId = "0x0" -> "0"
      [] OTHER -> "NaN"

net_version(context) ==
    LET chainId == eth_chainId(context) IN
    IF chainId.err # "" THEN chainId ELSE Ok(<<parseInt(chainId.val[1])>>)

\* transaction: params[0], Null when missing.
eth_sendTransaction_result(context, transaction) ==
    IF ~ensureCurrentAddress THEN Err("Error")
    ELSE LET allowed == allowedOrigin(context, readCurrentAddress) IN
         IF allowed = "Error" THEN Err("Error")
         ELSE IF allowed = "false" THEN Err("OriginNotAllowed")
         ELSE IF transaction = Null THEN Err("InvalidParams")
         ELSE Pending("/sendTransaction")

eth_sendTransaction(context, requestId, transaction) ==
    /\ IsPending(eth_sendTransaction_result(context, transaction))
    /\ safeOpenDialogWindow(context.origin,
           DialogOf(context.origin, requestId, "/sendTransaction",
                           "eth_sendTransaction",
                           getTransactionChainId(transaction[1])))

eth_signTypedData_v4_result(context, address) ==
    IF ~ensureCurrentAddress THEN Err("Error")
    ELSE LET allowed == allowedOrigin(context, readCurrentAddress) IN
         IF allowed = "Error" THEN Err("Error")
         ELSE IF allowed = "false" THEN Err("OriginNotAllowed")
         ELSE IF normalizeAddress(address) # normalizeAddress(readCurrentAddress)
              THEN Err("Error")
         ELSE Pending("/signTypedData")

eth_signTypedData_v4(context, requestId, address) ==
    /\ IsPending(eth_signTypedData_v4_result(context, address))
    /\ safeOpenDialogWindow(context.origin,
           DialogOf(context.origin, requestId, "/signTypedData",
                           "eth_signTypedData_v4", ""))

eth_signTypedData_result(context) == Err("MethodNotImplemented")

eth_sign_result(context) == Err("MethodNotImplemented")

\* params: at most three strings; a missing parameter reads as "".
Param(params, i) == IF i <= Len(params) THEN params[i] ELSE ""

\* Address detection that looks at the second parameter only.
personal_sign_address_secondOnly(params) ==
    IF isEthereumAddress(Param(params, 2)) THEN Param(params, 2) ELSE ""

\* The address personal_sign finds in [shouldBeMessage, shouldBeAddress]:
\* the second parameter if it is an address, else the first if it is one,
\* else none ("", the code throws).
personal_sign_address(params) ==
    LET shouldBeMessage == Param(params, 1)
        shouldBeAddress == Param(params, 2)
    IN  IF isEthereumAddress(shouldBeAddress) THEN shouldBeAddress
        ELSE IF isEthereumAddress(shouldBeMessage) THEN shouldBeMessage
        ELSE ""

\* The message: the parameter that is not taken as the address.
personal_sign_message(params) ==
    IF isEthereumAddress(Param(params, 2)) THEN Param(params, 1) ELSE Param(params, 2)

\* personal_sign that does not compare the address found with the active one.
personal_sign_result_noAddressCheck(context, params) ==
    LET message == personal_sign_message(params) IN
    IF Len(params) = 0 THEN Err("InvalidParams")
    ELSE IF ~ensureCurrentAddress THEN Err("Error")
    ELSE IF personal_sign_address(params) = "" THEN Err("Error")
    ELSE LET allowed == allowedOrigin(context, readCurrentAddress) IN
         IF allowed = "Error" THEN Err("Error")
         ELSE IF allowed = "false" THEN Err("OriginNotAllowed")
         ELSE Pending(IF isSiweLike(message) THEN "/siwe" ELSE "/signMessage")

personal_sign_result(context, params) ==
    LET address == personal_sign_address(params)
        message == personal_sign_message(params)
    IN  IF Len(params) = 0 THEN Err("InvalidParams")
        ELSE IF ~ensureCurrentAddress THEN Err("Error")
        ELSE IF address = "" THEN Err("Error")
        ELSE IF normalizeAddress(address) # normalizeAddress(readCurrentAddress)
             THEN Err("Error")
        ELSE LET allowed == allowedOrigin(context, readCurrentAddress) IN
             IF allowed = "Error" THEN Err("Error")
             ELSE IF allowed = "false" THEN Err("OriginNotAllowed")
             ELSE Pending(IF isSiweLike(message) THEN "/siwe" ELSE "/signMessage")

\* The dialog the call asks for: its route and the message in its search
\* string.
personal_sign_request(context, requestId, params) ==
    LET message == personal_sign_message(params) IN
    DialogOf(context.origin, requestId,
             IF isSiweLike(message) THEN "/siwe" ELSE "/signMessage",
             "personal_sign", message)

personal_sign(context, requestId, params) ==
    /\ IsPending(personal_sign_result(context, params))
    /\ safeOpenDialogWindow(context.origin,
           personal_sign_request(context, requestId, params))

\* wallet_switchEthereumChain that takes a chain id the registry does not know.
wallet_switchEthereumChain_result_anyChainId(context, chainIdParameter) ==
    IF readCurrentAddress = "" THEN Err("Error")
    ELSE LET allowed == allowedOrigin(context, readCurrentAddress) IN
         IF allowed = "Error" THEN Err("Error")
         ELSE IF allowed = "false" THEN Err("OriginNotAllowed")
         ELSE IF chainIdParameter = "" THEN Err("InvalidParams")
         ELSE Ok(<<"null">>)

\* chainIdParameter: params[0].chainId, "" when params[0] is missing.
wallet_switchEthereumChain_result(context, chainIdParameter) ==
    IF readCurrentAddress = "" THEN Err("Error")
    ELSE LET allowed == allowedOrigin(context, readCurrentAddress) IN
         IF allowed = "Error" THEN Err("Error")
         ELSE IF allowed = "false" THEN Err("OriginNotAllowed")
         ELSE IF chainIdParameter = "" THEN Err("InvalidParams")
         ELSE IF hexValue(chainIdParameter) = getChainIdForOrigin(context.origin)
              THEN Ok(<<"null">>)
         ELSE IF getChainById(hexValue(chainIdParameter)) = ""
              THEN Err("SwitchChainError")
         ELSE Ok(<<"null">>)

\* The record after the call: rebound only when the call switches the chain.
wallet_switchEthereumChain_record(context, chainIdParameter) ==
    IF wallet_switchEthereumChain_result(context, chainIdParameter).err = ""
       /\ hexValue(chainIdParameter) # getChainIdForOrigin(context.origin)
    THEN Some(Wallet_setChainForOrigin(record[1],
                  getChainById(hexValue(chainIdParameter)), context.origin))
    ELSE record

\* The chainChanged events of the call: the one setChainForOrigin emits when
\* the call switches the chain.
wallet_switchEthereumChain_chainChanged(context, chainIdParameter) ==
    IF wallet_switchEthereumChain_result(context, chainIdParameter).err = ""
       /\ hexValue(chainIdParameter) # getChainIdForOrigin(context.origin)
    THEN <<[chain |-> getChainById(hexValue(chainIdParameter)),
            origin |-> context.origin]>>
    ELSE <<>>

wallet_switchEthereumChain(context, chainIdParameter) ==
    LET after == wallet_switchEthereumChain_record(context, chainIdParameter) IN
    /\ after # record
    /\ SetRecord(after[1])
    /\ settled' = Null

wallet_addEthereumChain_result(context, chainIdParameter) ==
    IF context.origin = NoOrigin THEN Err("Error")
    ELSE IF chainIdParameter = "" THEN Err("InvalidParams")
    ELSE Pending("/addEthereumChain")

wallet_addEthereumChain(context, requestId, chainIdParameter) ==
    /\ IsPending(wallet_addEthereumChain_result(context, chainIdParameter))
    /\ OpenDialog(DialogOf(context.origin, requestId, "/addEthereumChain",
                           "wallet_addEthereumChain", chainIdParameter))

(***************************************************************************)
(* Dialogs: resolution and dismissal                                       *)
(***************************************************************************)
CloseDialog(dialog) == dialogs' = dialogs \ {dialog}

\* onResolve that leaves the active address as it is.
ResolveRequestAccounts_current_asIs(address) == record[1]

\* onResolve of /requestAccounts: the record once the address handed over has
\* been made the active one, when it is not the active one already.
ResolveRequestAccounts_current(address) ==
    IF normalizeAddress(address) # normalizeAddress(readCurrentAddress)
    THEN setCurrentAddress(record[1], address)
    ELSE record[1]

\* onResolve of /requestAccounts.  A failed invariant or a missing current
\* address throws inside the callback: the promise is never settled.
ResolveRequestAccounts(dialog, address, resolvedOrigin) ==
    LET context == [origin |-> dialog.origin]
        valid == /\ address # ""
                 /\ resolvedOrigin # ""
                 /\ resolvedOrigin = dialog.origin
                 /\ ensureCurrentAddress
                 /\ verifyInternalOrigin(INTERNAL_SYMBOL_CONTEXT)
    IN
    /\ dialog \in dialogs
    /\ dialog.route = "/requestAccounts"
    /\ CloseDialog(dialog)
    /\ IF valid
       THEN LET current == ResolveRequestAccounts_current(address)
                accepted == addPermission(current, address, dialog.origin)
            IN  /\ record' = Some(accepted)
                /\ walletStore' = updateWalletStore(accepted)
                /\ settled' = Settle(dialog, "resolve", address,
                       LET accounts == eth_accounts(context)' IN
                       IF accounts.err # "" THEN accounts
                       ELSE IF dialog.method = "wallet_requestPermissions"
                       THEN generatePermissionResponse(dialog.param)
                       ELSE Ok([i \in DOMAIN accounts.val |->
                                    toLowerCase(accounts.val[i])]))
       ELSE /\ settled' = Settle(dialog, "resolve", address, Unsettled)
            /\ UNCHANGED <<record, walletStore>>
    /\ UNCHANGED <<id, userCredentials, seedPhraseExpiryTimerId, timers,
                   pendingWallet, networks, sessionClock,
                   blockedOrigins, reads, injectionVars>>

\* onResolve of /sendTransaction, /signTypedData, /siwe, /signMessage: the
\* promise resolves with the value the dialog hands over.
ResolveSigning(dialog, value) ==
    /\ dialog \in dialogs
    /\ dialog.method \in {"eth_sendTransaction", "eth_signTypedData_v4", "personal_sign"}
    /\ CloseDialog(dialog)
    /\ settled' = Settle(dialog, "resolve", "", Ok(<<value>>))
    /\ UNCHANGED <<id, userCredentials, seedPhraseExpiryTimerId, timers,
                   pendingWallet, record, walletStore, networks, sessionClock,
                   blockedOrigins, reads, injectionVars>>

\* onResolve of /addEthereumChain, then wallet_switchEthereumChain for the
\* same origin and chain id.
ResolveAddEthereumChain(dialog) ==
    LET context == [origin |-> dialog.origin]
        after == wallet_switchEthereumChain_record(context, dialog.param)
    IN
    /\ dialog \in dialogs
    /\ dialog.method = "wallet_addEthereumChain"
    /\ CloseDialog(dialog)
    /\ record' = after
    /\ walletStore' = IF after # record THEN updateWalletStore(after[1])
                      ELSE walletStore
    /\ settled' = Settle(dialog, "resolve", "",
                         wallet_switchEthereumChain_result(context, dialog.param))
    /\ UNCHANGED <<id, userCredentials, seedPhraseExpiryTimerId, timers,
                   pendingWallet, networks, sessionClock,
                   blockedOrigins, reads, injectionVars>>

\* Every onDismiss rejecting with UserRejected.
DismissError_allUserRejected(method) == "UserRejected"

\* What each method's onDismiss rejects with.
DismissError(method) ==
    CASE method = "eth_requestAccounts" -> "UserRejected"
      [] method = "wallet_requestPermissions" -> "UserRejected"
      [] method = "wallet_addEthereumChain" -> "UserRejected"
      [] method = "eth_sendTransaction" -> "UserRejectedTxSignature"
      [] method = "eth_signTypedData_v4" -> "UserRejectedTxSignature"
      [] method = "personal_sign" -> "UserRejectedTxSignature"
      [] OTHER -> "Error"

DismissDialog(dialog) ==
    /\ dialog \in dialogs
    /\ CloseDialog(dialog)
    /\ settled' = Settle(dialog, "dismiss", "", Err(DismissError(dialog.method)))
    /\ UNCHANGED <<id, userCredentials, seedPhraseExpiryTimerId, timers,
                   pendingWallet, record, walletStore, networks, sessionClock,
                   blockedOrigins, reads, injectionVars>>

(***************************************************************************)
(* Phishing defence: the check raced against a dialog                      *)
(***************************************************************************)
Verdicts == {"ok", "phishing"}

\* The continuation of checkDapp(origin) in safeOpenDialogWindow, for a dialog
\* that is still open: a phishing verdict for an origin that is not
\* whitelisted marks the origin blocked and emits 'reject' with UserRejected
\* for the dialog's id, which ends the dialog's call; any other verdict does
\* nothing.
checkDapp(dialog, status, isWhitelisted) ==
    /\ dialog \in dialogs
    /\ dialog.check = "pending"
    /\ IF status = "phishing" /\ ~isWhitelisted
       THEN /\ blockedOrigins' = blockedOrigins \cup {dialog.origin}
            /\ CloseDialog(dialog)
            /\ settled' = Settle(dialog, "reject", "", Err("UserRejected"))
       ELSE /\ dialogs' = (dialogs \ {dialog}) \cup {[dialog EXCEPT !.check = "done"]}
            /\ settled' = Null
            /\ UNCHANGED blockedOrigins
    /\ UNCHANGED <<id, userCredentials, seedPhraseExpiryTimerId, timers,
                   pendingWallet, record, walletStore, networks, sessionClock,
                   reads, injectionVars>>

(***************************************************************************)
(* ContentScriptManager (src/background/ContentScriptManager.ts): the      *)
(* injection policy.  providerInjection is null or a map from a pattern to *)
(* [expires], expires null or a time; the registered content script is     *)
(* null or [matches, excludeMatches].                                      *)
(***************************************************************************)
MaxNow == 2
MaxTasks == 3

AllUrls == "<all_urls>"
SitePattern == "https://a.example/app"
Patterns == {AllUrls, SitePattern}

Times == 0 .. MaxNow
Expiries == {Null} \cup {Some(t) : t \in 1 .. MaxNow}
Entries == {[expires |-> e] : e \in Expiries}
ProviderInjections ==
    {Null} \cup {Some(m) : m \in UNION {[ks -> Entries] : ks \in SUBSET Patterns}}

\* new URL(key) with pathname set to '/*', as href.
href(key) ==
    CASE key = SitePattern -> "https://a.example/*"
      [] OTHER -> key \o "/*"

NOTHING_MATCHES == Null

\* getMatches() with this.providerInjection = pi at Date.now() = t.
getMatches(pi, t) ==
    LET allUrls == IF pi # Null /\ AllUrls \in DOMAIN pi[1]
                   THEN Some(pi[1][AllUrls]) ELSE Null
    IN
    IF allUrls = Null THEN Some(<<"<all_urls>">>)
    ELSE IF allUrls[1].expires = Null THEN NOTHING_MATCHES
    ELSE IF allUrls[1].expires[1] > t THEN NOTHING_MATCHES
    ELSE Some(<<"<all_urls">>)

\* getExcludeMatches that also skips an entry whose expiry is null.
getExcludeMatches_pendingOnly(pi, t) ==
    IF pi = Null THEN Null
    ELSE Some({href(key) : key \in
                 {k \in DOMAIN pi[1] \ {AllUrls} :
                     /\ pi[1][k].expires # Null
                     /\ ~(pi[1][k].expires[1] < t)}})

\* getExcludeMatches() with this.providerInjection = pi at Date.now() = t:
\* undefined, or the patterns pushed, as a set.
getExcludeMatches(pi, t) ==
    IF pi = Null THEN Null
    ELSE Some({href(key) : key \in
                 {k \in DOMAIN pi[1] \ {AllUrls} :
                     ~(pi[1][k].expires # Null /\ pi[1][k].expires[1] < t)}})

\* removeExpiredRecords that keeps an entry expiring at this very time.
removeExpiredRecords_draft_strictlyPast(pi, t) ==
    IF pi = Null THEN Null
    ELSE LET kept == {k \in DOMAIN pi[1] :
                        ~(pi[1][k].expires # Null /\ pi[1][k].expires[1] < t)}
         IN  IF kept = {} THEN Null ELSE Some([k \in kept |-> pi[1][k]])

\* The recipe removeExpiredRecords hands to setState, applied to a state
\* whose providerInjection is pi at Date.now() = t.
removeExpiredRecords_draft(pi, t) ==
    IF pi = Null THEN Null
    ELSE LET kept == {k \in DOMAIN pi[1] :
                        ~(pi[1][k].expires # Null /\ pi[1][k].expires[1] <= t)}
         IN  IF kept = {} THEN Null ELSE Some([k \in kept |-> pi[1][k]])

\* difference(a, b) over sorted lists without duplicates, kept as sets.
difference(a, b) == a \ b

\* The least element of a non-empty set of times: the head of the sorted list.
Min(S) == CHOOSE x \in S : \A y \in S : x <= y

\* requiredAlarms of setAndDiscardAlarms: the expiries of this.providerInjection.
requiredAlarms(pi) ==
    IF pi = Null THEN {}
    ELSE {pi[1][k].expires[1] : k \in {j \in DOMAIN pi[1] : pi[1][j].expires # Null}}

\* A suspended async call: the method that awaits, and what it holds.
Task(kind, arg) == [kind |-> kind, arg |-> arg]

\* The browser API a suspended call awaits; one API answers in the order asked.
Api(kind) ==
    CASE kind = "handleChange" -> "preferences"
      [] kind = "update" -> "scripting"
      [] OTHER -> "alarms"

CanResume(i) ==
    /\ i \in DOMAIN tasks
    /\ \A j \in 1 .. (i - 1) : Api(tasks[j].kind) # Api(tasks[i].kind)

Remaining(i) == SubSeq(tasks, 1, i - 1) \o SubSeq(tasks, i + 1, Len(tasks))

\* The listeners of 'change' that activate() attached, each run to its first
\* await: handleChange awaits getPreferences, setAndDiscardAlarms awaits
\* alarms.getAll, which answers with the alarm scheduled at that time.
ChangeListeners(scheduled) ==
    <<Task("handleChange", Null), Task("setAndDiscardAlarms", scheduled)>>

\* globalPreferences.setState: the state is replaced, and 'change' is emitted
\* when it differs from the one before.
setState(next, scheduled) ==
    /\ preferences' = next
    /\ tasks' = IF activated /\ next # preferences
                THEN tasks \o ChangeListeners(scheduled) ELSE tasks

\* The values of providerInjection one edit away: one pattern paused until a
\* later time or for good, or one pattern removed.
Edits ==
    LET m == IF preferences = Null THEN <<>> ELSE preferences[1] IN
    {Some([k \in DOMAIN m \cup {p} |-> IF k = p THEN e ELSE m[k]]) :
        p \in Patterns,
        e \in {x \in Entries : x.expires = Null \/ x.expires[1] > now}}
    \cup {Some([k \in DOMAIN m \ {p} |-> m[k]]) : p \in DOMAIN m}

\* The user changes the providerInjection preference.
GlobalPreferences_setPreferences(next) ==
    /\ next \in Edits
    /\ Len(tasks) + 2 <= MaxTasks
    /\ setState(next, alarms)
    /\ UNCHANGED <<now, providerInjection, activated, alarms, scripts>>
    /\ UNCHANGED walletVars

\* activate(): handleChange() runs to its await, the listeners are attached.
activate ==
    /\ ~activated
    /\ activated' = TRUE
    /\ tasks' = tasks \o <<Task("handleChange", Null)>>
    /\ UNCHANGED <<now, preferences, providerInjection, alarms, scripts>>
    /\ UNCHANGED walletVars

\* handleChange() after getPreferences has answered: a providerInjection that
\* differs is stored and update() runs to its await, having asked to
\* unregister the content script.
handleChange(i) ==
    /\ CanResume(i)
    /\ tasks[i].kind = "handleChange"
    /\ IF preferences # providerInjection
       THEN /\ providerInjection' = preferences
            /\ scripts' = Null
            /\ tasks' = Remaining(i) \o <<Task("update", Null)>>
       ELSE /\ tasks' = Remaining(i)
            /\ UNCHANGED <<providerInjection, scripts>>
    /\ UNCHANGED <<now, preferences, activated, alarms>>
    /\ UNCHANGED walletVars

\* A match pattern chrome.scripting accepts.
ValidPattern(pattern) == pattern = "<all_urls>" \/ pattern \in {href(k) : k \in Patterns}

\* update() after unregisterContentScripts has answered (a failure is caught):
\* nothing is registered without matches; a registration with an id that is
\* registered or with a malformed pattern is refused.
update(i) ==
    LET matches == getMatches(providerInjection, now)
        excludeMatches == getExcludeMatches(providerInjection, now)
    IN
    /\ CanResume(i)
    /\ tasks[i].kind = "update"
    /\ tasks' = Remaining(i)
    /\ scripts' = IF /\ matches # NOTHING_MATCHES
                     /\ scripts = Null
                     /\ \A j \in DOMAIN matches[1] : ValidPattern(matches[1][j])
                  THEN Some([matches |-> matches[1], excludeMatches |-> excludeMatches])
                  ELSE scripts
    /\ UNCHANGED <<now, preferences, providerInjection, activated, alarms>>
    /\ UNCHANGED walletVars

\* setAndDiscardAlarms() after alarms.getAll has answered: with an alarm to
\* discard, alarms.clear is asked and awaited; else the earliest expiry that
\* is not scheduled is armed, replacing the alarm of the same name.
setAndDiscardAlarms(i) ==
    LET scheduled == IF tasks[i].arg = Null THEN {} ELSE {tasks[i].arg[1]}
        required == requiredAlarms(providerInjection)
        toSet == difference(required, scheduled)
        toDiscard == difference(scheduled, required)
    IN
    /\ CanResume(i)
    /\ tasks[i].kind = "setAndDiscardAlarms"
    /\ IF toDiscard # {}
       THEN /\ alarms' = Null
            /\ tasks' = Remaining(i) \o
                   <<Task("create", IF toSet = {} THEN Null ELSE Some(Min(toSet)))>>
       ELSE /\ alarms' = IF toSet # {} THEN Some(Min(toSet)) ELSE alarms
            /\ tasks' = Remaining(i)
    /\ UNCHANGED <<now, preferences, providerInjection, activated, scripts>>
    /\ UNCHANGED walletVars

\* setAndDiscardAlarms() after alarms.clear has answered.
setAndDiscardAlarms_cleared(i) ==
    /\ CanResume(i)
    /\ tasks[i].kind = "create"
    /\ alarms' = IF tasks[i].arg # Null THEN tasks[i].arg ELSE alarms
    /\ tasks' = Remaining(i)
    /\ UNCHANGED <<now, preferences, providerInjection, activated, scripts>>
    /\ UNCHANGED walletVars

\* The provider-injection alarm goes off, at its time or later: handleAlarm
\* emits 'alarm' and the manager runs removeExpiredRecords().
handleAlarm ==
    /\ alarms # Null
    /\ alarms[1] <= now
    /\ Len(tasks) + 2 <= MaxTasks
    /\ alarms' = Null
    /\ setState(removeExpiredRecords_draft(preferences, now), Null)
    /\ UNCHANGED <<now, providerInjection, activated, scripts>>
    /\ UNCHANGED walletVars

\* Date.now() advances.
Advance ==
    /\ now < MaxNow
    /\ now' = now + 1
    /\ UNCHANGED <<preferences, providerInjection, activated, alarms, scripts, tasks>>
    /\ UNCHANGED walletVars

(***************************************************************************)
(* Specification                                                           *)
(***************************************************************************)
\* A fresh install: no preference stored, nothing scheduled or registered.
InitInjection ==
    /\ now = 0
    /\ preferences = Null
    /\ providerInjection = Null
    /\ activated = FALSE
    /\ alarms = Null
    /\ scripts = Null
    /\ tasks = <<>>

\* A start of the extension with the preferences it stored before: the
\* browser has kept the alarm of a stored expiry or has not, and no content
\* script is registered.
InitInjectionRestart ==
    /\ now = 0
    /\ preferences \in ProviderInjections
    /\ providerInjection = Null
    /\ activated = FALSE
    /\ alarms \in {Null} \cup {Some(t) : t \in requiredAlarms(preferences)}
    /\ scripts = Null
    /\ tasks = <<>>

InitWallet ==
    /\ id = ""
    /\ userCredentials = Null
    /\ seedPhraseExpiryTimerId = 0
    /\ timers = {}
    /\ pendingWallet = Null
    /\ record = Null
    /\ walletStore = [u \in UserIds |-> Null]
    /\ networks = {Ethereum}
    /\ dialogs = {}
    /\ settled = Null
    /\ sessionClock = Null
    /\ blockedOrigins = {}
    /\ reads = <<>>

Init == InitWallet /\ InitInjection

InitRestart == InitWallet /\ InitInjectionRestart

\* Time advances to a pending timer's deadline.
Deadlines == {t.remaining : t \in timers}
\* Time advances to a pending timer's deadline or to 1 ms before it, and by
\* 1 ms more once the session clock has reached its timeout.
TickSteps ==
    {d \in Deadlines \cup {t.remaining - 1 : t \in timers} : d > 0}
        \cup (IF sessionClock # Null
                 /\ sessionClock[1].elapsed = SessionTimeout(sessionClock[1].isNewUser)
              THEN {1} ELSE {})

\* The callers of the internal API in the behaviours explored: the UI and a
\* web page.
UiContext == [origin |-> INTERNAL_ORIGIN]
Callers == {[origin |-> INTERNAL_ORIGIN], [origin |-> "https://a.example"]}
PublicCallers == {[origin |-> o] : o \in Origins}

PersonalSignParams ==
    {<<m, a>> : m \in Messages, a \in AddressInputs} \cup {<<"0xCd", "hello">>}

PermissionApi(context) ==
    \/ \E o \in Origins, a \in Addresses : acceptOrigin(context, o, a)
    \/ Wallet_removeAllOriginPermissions(context)
    \/ \E o \in Origins, a \in Addresses \cup {""} : Wallet_removePermission(context, o, a)
    \/ \E a \in Addresses : Wallet_setCurrentAddress(context, a)
    \/ \E o \in Origins, c \in Chains : switchChainForOrigin(context, c, o)
    \/ \E o \in Origins : addEthereumChain(context, CustomChain, o)
    \/ removeEthereumChain(context, CustomChain)

PublicApi(context) ==
    \/ \E r \in RequestIds : eth_requestAccounts(context, r)
    \/ \E r \in RequestIds : eth_sendTransaction(context, r, Some(Tx("0xAb", "")))
    \/ \E r \in RequestIds, a \in AddressInputs : eth_signTypedData_v4(context, r, a)
    \/ \E r \in RequestIds, ps \in PersonalSignParams : personal_sign(context, r, ps)
    \/ \E p \in ChainIdParams : wallet_switchEthereumChain(context, p)
    \/ \E r \in RequestIds : wallet_addEthereumChain(context, r, "0x089")

\* The permission and dialog engine: one login, the session timer running
\* to its deadline, a wallet generated and saved, and every permission,
\* chain and provider call.
Next ==
    \/ updateCredentials(SessionCredentialsOf("u1"), FALSE)
    \/ \E d \in Deadlines : Tick(d)
    \/ \E context \in Callers : uiGenerateMnemonic(context, "0xAb")
    \/ \E context \in Callers : savePendingWallet(context)
    \/ \E context \in Callers : PermissionApi(context)
    \/ \E context \in PublicCallers : PublicApi(context)
    \/ \E d \in dialogs, a \in Addresses, o \in Origins : ResolveRequestAccounts(d, a, o)
    \/ \E d \in dialogs : ResolveSigning(d, "0xf00d")
    \/ \E d \in dialogs : ResolveAddEthereumChain(d)
    \/ \E d \in dialogs : DismissDialog(d)

Spec == Init /\ [][Next]_vars

\* The session engine: every login, lock and timer step, every way to stage
\* and commit a wallet, and record changes that are saved to the store.
NextSession ==
    \/ \E c \in CredentialInputs, isNewUser \in BOOLEAN : updateCredentials(c, isNewUser)
    \/ resetCredentials
    \/ \E d \in TickSteps : Tick(d)
    \/ \E context \in Callers :
        \/ uiGenerateMnemonic(context, "0xAb")
        \/ uiImportSeedPhrase(context, "0xCd")
        \/ uiImportPrivateKey(context, "0xCd")
        \/ uiImportHardwareWallet(context, <<"0xAb">>)
        \/ savePendingWallet(context)
        \/ acceptOrigin(context, "https://a.example", "0xAb")
        \/ Wallet_removeAllOriginPermissions(context)

SpecSession == Init /\ [][NextSession]_vars

\* The callers and the transactions of the pipeline in the behaviours explored:
\* the UI with every transaction, and each kind of caller with one.
TxCallers == Callers \cup {INTERNAL_SYMBOL_CONTEXT}
TxInputs == {Null} \cup {Some(Tx(from, c)) : from \in {"", "0xab", "0xCd"}, c \in TxChainIds}

\* The transaction engine: a wallet with key material and one without, the
\* chain bindings of the origins, eth_sendTransaction and its dialog, and the
\* two pipeline entry points with the provider taking or refusing.
NextTx ==
    \/ updateCredentials(SessionCredentialsOf("u1"), FALSE)
    \/ \E context \in Callers : uiGenerateMnemonic(context, "0xAb")
    \/ \E context \in Callers : uiImportHardwareWallet(context, <<"0xCd">>)
    \/ \E context \in Callers : savePendingWallet(context)
    \/ \E context \in Callers, a \in Addresses : Wallet_setCurrentAddress(context, a)
    \/ \E context \in Callers : acceptOrigin(context, "https://a.example", "0xAb")
    \/ \E context \in Callers, o \in Origins, c \in Chains : switchChainForOrigin(context, c, o)
    \/ \E context \in Callers : addEthereumChain(context, CustomChain, "https://a.example")
    \/ \E context \in Callers : removeEthereumChain(context, CustomChain)
    \/ \E context \in PublicCallers, r \in RequestIds, t \in TxInputs :
          eth_sendTransaction(context, r, t)
    \/ \E d \in dialogs : ResolveSigning(d, "0xf00d")
    \/ \E d \in dialogs : DismissDialog(d)
    \/ \E t \in TxInputs, i \in Initiators, accepted \in BOOLEAN :
          signAndSendTransaction([origin |-> INTERNAL_ORIGIN], t, i, accepted)
    \/ \E context \in TxCallers :
          signAndSendTransaction(context, Some(Tx("0xab", "0x1")), SwapPage, TRUE)
    \/ \E c \in Chains, i \in Initiators, accepted \in BOOLEAN :
          sendSignedTransaction([origin |-> INTERNAL_ORIGIN], c, i, accepted)
    \/ \E context \in TxCallers :
          sendSignedTransaction(context, Ethereum, SwapPage, TRUE)

SpecTx == Init /\ [][NextTx]_vars

\* The chain engine: one login, a wallet generated and saved, every
\* permission and chain call of the UI, and the provider calls that grant an
\* account, switch the chain of an origin or add a chain.
NextChain ==
    \/ updateCredentials(SessionCredentialsOf("u1"), FALSE)
    \/ \E context \in Callers : uiGenerateMnemonic(context, "0xAb")
    \/ \E context \in Callers : savePendingWallet(context)
    \/ \E context \in Callers : PermissionApi(context)
    \/ \E context \in PublicCallers, r \in RequestIds : eth_requestAccounts(context, r)
    \/ \E context \in PublicCallers, p \in ChainIdParams :
          wallet_switchEthereumChain(context, p)
    \/ \E context \in PublicCallers, r \in RequestIds :
          wallet_addEthereumChain(context, r, "0x089")
    \/ \E d \in dialogs, a \in Addresses, o \in Origins : ResolveRequestAccounts(d, a, o)
    \/ \E d \in dialogs : ResolveAddEthereumChain(d)
    \/ \E d \in dialogs : DismissDialog(d)

SpecChain == Init /\ [][NextChain]_vars

\* The dialog engine: one login, a wallet generated and saved, an origin
\* granted, every provider call that opens a dialog, the verdicts of the
\* phishing check and the ways a dialog ends.
NextDefence ==
    \/ updateCredentials(SessionCredentialsOf("u1"), FALSE)
    \/ \E context \in Callers : uiGenerateMnemonic(context, "0xAb")
    \/ \E context \in Callers : savePendingWallet(context)
    \/ \E context \in Callers : acceptOrigin(context, "https://a.example", "0xAb")
    \/ \E context \in PublicCallers, r \in RequestIds : eth_requestAccounts(context, r)
    \/ \E context \in PublicCallers, r \in RequestIds :
          eth_sendTransaction(context, r, Some(Tx("0xAb", "")))
    \/ \E context \in PublicCallers, r \in RequestIds :
          eth_signTypedData_v4(context, r, "0xAb")
    \/ \E context \in PublicCallers, r \in RequestIds, ps \in PersonalSignParams :
          personal_sign(context, r, ps)
    \/ \E context \in PublicCallers, r \in RequestIds :
          wallet_addEthereumChain(context, r, "0x089")
    \/ \E d \in dialogs, status \in Verdicts, isWhitelisted \in BOOLEAN :
          checkDapp(d, status, isWhitelisted)
    \/ \E d \in dialogs, a \in Addresses, o \in Origins : ResolveRequestAccounts(d, a, o)
    \/ \E d \in dialogs : ResolveSigning(d, "0xf00d")
    \/ \E d \in dialogs : ResolveAddEthereumChain(d)
    \/ \E d \in dialogs : DismissDialog(d)

SpecDefence == Init /\ [][NextDefence]_vars

\* The injection engine: the extension starts with stored preferences, the
\* manager is activated, the user edits providerInjection, time passes, the
\* alarm goes off, and every suspended call resumes.
NextInjection ==
    \/ activate
    \/ \E next \in ProviderInjections : GlobalPreferences_setPreferences(next)
    \/ \E i \in DOMAIN tasks : handleChange(i)
    \/ \E i \in DOMAIN tasks : update(i)
    \/ \E i \in DOMAIN tasks : setAndDiscardAlarms(i)
    \/ \E i \in DOMAIN tasks : setAndDiscardAlarms_cleared(i)
    \/ handleAlarm
    \/ Advance

SpecInjection == InitRestart /\ [][NextInjection]_vars

\* The account engine: one login, a wallet with two addresses, the active
\* address and the permissions changed by the UI, account requests of the
\* origins that overlap, and their dialogs resolved with any address and
\* origin, or with none, or dismissed.
NextAccounts ==
    \/ updateCredentials(SessionCredentialsOf("u1"), FALSE)
    \/ uiGenerateMnemonic(UiContext, "0xAb")
    \/ uiImportPrivateKey(UiContext, "0xCd")
    \/ savePendingWallet(UiContext)
    \/ \E a \in Addresses : Wallet_setCurrentAddress(UiContext, a)
    \/ \E o \in Origins : Wallet_removePermission(UiContext, o, "")
    \/ \E context \in PublicCallers, r \in RequestIds :
          eth_requestAccounts_within(context, r, MaxPending)
    \/ \E context \in PublicCallers, r \in RequestIds, params \in PermissionParams :
          wallet_requestPermissions(context, r, params)
    \/ \E d \in dialogs, a \in Addresses \cup {""}, o \in Origins \cup {""} :
          ResolveRequestAccounts(d, a, o)
    \/ \E d \in dialogs : DismissDialog(d)

SpecAccounts == Init /\ [][NextAccounts]_vars

\* The credentials engine: the wallets of two users generated and saved, and
\* updateCredentials calls for either user that overlap, their store reads
\* resolving in any order.
OverlappingCredentials == {SessionCredentialsOf("u1"), SessionCredentialsOf("u2")}

NextCredentials ==
    \/ \E c \in OverlappingCredentials, isNewUser \in BOOLEAN :
          updateCredentials_suspended(c, isNewUser)
    \/ \E i \in DOMAIN reads : syncWithWalletStore_read(i)
    \/ \E i \in DOMAIN reads : syncWithWalletStore(i)
    \/ resetCredentials
    \/ uiGenerateMnemonic(UiContext, "0xAb")
    \/ savePendingWallet(UiContext)

SpecCredentials == Init /\ [][NextCredentials]_vars

\* The approval engine: one login, a wallet generated and saved, an origin
\* granted and revoked and the active address changed by the UI, transactions
\* asked for by the origins, and the UI that submits a transaction for an
\* initiator and resolves or dismisses the dialog.
NextApproval ==
    \/ updateCredentials(SessionCredentialsOf("u1"), FALSE)
    \/ uiGenerateMnemonic(UiContext, "0xAb")
    \/ savePendingWallet(UiContext)
    \/ acceptOrigin(UiContext, "https://a.example", "0xAb")
    \/ \E o \in Origins : Wallet_removePermission(UiContext, o, "")
    \/ \E a \in Addresses : Wallet_setCurrentAddress(UiContext, a)
    \/ \E context \in PublicCallers, r \in RequestIds, from \in Addresses :
          eth_sendTransaction(context, r, Some(Tx(from, "")))
    \/ \E from \in Addresses, c \in TxChainIds, i \in Initiators, accepted \in BOOLEAN :
          signAndSendTransaction(UiContext, Some(Tx(from, c)), i, accepted)
    \/ \E d \in dialogs : ResolveSigning(d, "0xf00d")
    \/ \E d \in dialogs : DismissDialog(d)

SpecApproval == Init /\ [][NextApproval]_vars

(***************************************************************************)
(* Properties                                                              *)
(***************************************************************************)
\* The record binds origin o to the current address.
BoundToCurrent(o) ==
    /\ record # Null
    /\ record[1].currentAddress # ""
    /\ o \in DOMAIN record[1].permissions
    /\ record[1].permissions[o].address = normalizeAddress(record[1].currentAddress)

\* C1: in every reachable state, eth_accounts called by a web origin returns
\* the one-element list of the current address if the record binds that
\* origin to the current address, and the empty list in every other case (no
\* record, no current address, no permission, a permission for another
\* address).  eth_accounts only reads: it has no step of its own.
C1_EthAccounts ==
    \A o \in Origins :
        eth_accounts([origin |-> o]) =
            IF BoundToCurrent(o) THEN Ok(<<record[1].currentAddress>>) ELSE Ok(<<>>)

\* One origin is bound to the current address, the other to another address.
C1_Witness ==
    \E o, p \in Origins :
        /\ BoundToCurrent(o)
        /\ eth_accounts([origin |-> o]) = Ok(<<record[1].currentAddress>>)
        /\ p \in DOMAIN record[1].permissions
        /\ record[1].permissions[p].address \notin {"", normalizeAddress(record[1].currentAddress)}
        /\ eth_accounts([origin |-> p]) = Ok(<<>>)

\* The steps of the Internal Wallet API that a call with this context can take.
InternalApiStep(context) ==
    \/ \E a \in Addresses : uiGenerateMnemonic(context, a)
    \/ \E a \in Addresses : uiImportSeedPhrase(context, a)
    \/ \E a \in Addresses : uiImportPrivateKey(context, a)
    \/ \E a \in Addresses : uiImportHardwareWallet(context, <<a>>)
    \/ savePendingWallet(context)
    \/ \E o \in Origins, a \in Addresses : acceptOrigin(context, o, a)
    \/ Wallet_removeAllOriginPermissions(context)
    \/ \E o \in Origins, a \in Addresses \cup {""} : Wallet_removePermission(context, o, a)
    \/ \E a \in Addresses : Wallet_setCurrentAddress(context, a)
    \/ \E o \in Origins, c \in Chains : switchChainForOrigin(context, c, o)
    \/ \E o \in Origins : addEthereumChain(context, CustomChain, o)
    \/ removeEthereumChain(context, CustomChain)

\* What the Internal Wallet API answers a call with this context.
InternalApiResults(context) ==
    {uiGenerateMnemonic_result(context), uiImportSeedPhrase_result(context),
     uiImportPrivateKey_result(context),
     uiImportHardwareWallet_result(context, <<"0xAb">>),
     savePendingWallet_result(context), setPreferences_result(context),
     removeAllOriginPermissions_result(context),
     removeEthereumChain_result(context, CustomChain)}
        \cup {acceptOrigin_result(context, o, a) : o \in Origins, a \in Addresses}
        \cup {removePermission_result(context, o, a) : o \in Origins, a \in Addresses}
        \cup {setCurrentAddress_result(context, a) : a \in Addresses}
        \cup {switchChainForOrigin_result(context, c, o) : c \in Chains, o \in Origins}
        \cup {addEthereumChain_result(context, CustomChain, o) : o \in Origins}

\* C2: every Internal Wallet API operation (generate or import a mnemonic,
\* import a private key, import hardware accounts, commit the pending wallet,
\* accept or remove a permission, switch chain, add or remove a chain, set
\* preferences) called with a context origin that is not the internal one
\* fails with OriginNotAllowed and leaves credentials, pending wallet and
\* record unchanged.
C2_InternalOriginOnly ==
    [][\A context \in ExternalContexts :
          /\ \A result \in InternalApiResults(context) : result.err = "OriginNotAllowed"
          /\ InternalApiStep(context) => UNCHANGED <<userCredentials, pendingWallet, record>>
      ]_vars

\* C3: a call that ends in OriginNotAllowed or SessionExpired has opened no
\* dialog and changed no state: no call that went through a dialog is
\* settled with one of these two errors.
C3_NoDialogBeforeAuthorizationError ==
    settled # Null => settled[1].result.err \notin {"OriginNotAllowed", "SessionExpired"}

\* A step that grants origin o a permission: acceptOrigin, or the resolution
\* of a /requestAccounts dialog that o opened.
Grants(o) ==
    \/ \E context \in Contexts, a \in Addresses : acceptOrigin(context, o, a)
    \/ \E d \in dialogs, a \in Addresses :
           d.origin = o /\ ResolveRequestAccounts(d, a, o)

\* A step that revokes: removePermission for o, or removeAllOriginPermissions.
Revokes(o) ==
    \/ \E context \in Contexts, a \in Addresses \cup {""} :
           Wallet_removePermission(context, o, a)
    \/ \E context \in Contexts : Wallet_removeAllOriginPermissions(context)

Available(rec, a, o) == rec # Null /\ isAccountAvailable(rec[1], a, o)

\* C4: for all origins O and addresses A, acceptOrigin(O, A) makes
\* isAccountAvailable(A, O) true, and every step that is neither a revocation
\* (removePermission for O, removeAllOriginPermissions) nor a new grant to O
\* keeps it true (a step that makes it false is one of these): setCurrentAddress, chain switches for any origin, chain
\* removal, grants to other origins, the session timer firing.
C4_PermissionStable ==
    [][\A o \in Origins, a \in Addresses :
          /\ Available(record', a, o)
                 \/ ~(\E context \in Contexts : acceptOrigin(context, o, a))
          /\ (Available(record, a, o) /\ ~Available(record', a, o))
                 => (Revokes(o) \/ Grants(o))
      ]_vars

\* An origin still holds the address it was granted although the current
\* address is another one, the origin's chain was switched, the other origin
\* holds a grant of its own and the session timer has fired.
C4_Witness ==
    \E o, p \in Origins :
        /\ o # p
        /\ Available(record, "0xAb", o)
        /\ Available(record, "0xCd", p)
        /\ normalizeAddress(record[1].currentAddress) = "0xcd"
        /\ record[1].permissions[o].chain = CustomChain
        /\ timers = {}
        /\ seedPhraseExpiryTimerId # 0

\* The threshold, in ms, of the session the last updateCredentials started.
Threshold == IF sessionClock[1].isNewUser THEN 1800000 ELSE 120000

\* The last call that touched the credentials is an updateCredentials with
\* credentials that carry a seed-phrase key.
SessionRunning == sessionClock # Null /\ sessionClock[1].withKey

\* C5: after updateCredentials(creds, isNewUser) with credentials carrying a
\* seed-phrase key and no later call that updates the credentials,
\* ensureActiveSession succeeds at every time strictly before the threshold
\* (120000 ms, or 1800000 ms when isNewUser) and fails from the threshold on.
C5_SessionWindow ==
    SessionRunning =>
        (ensureActiveSession(userCredentials) <=> sessionClock[1].elapsed < Threshold)

\* The session of a returning user at the very moment it expires.
C5_Witness ==
    /\ SessionRunning
    /\ ~sessionClock[1].isNewUser
    /\ sessionClock[1].elapsed = 120000
    /\ ~ensureActiveSession(userCredentials)

\* C6: at most one session-decay timer is armed at any time, it is the one
\* the last updateCredentials armed, and a timer cancelled by a later
\* updateCredentials never fires: the seed-phrase key of the new credentials
\* is still there at every time before the new timeout has elapsed.
C6_SingleTimer ==
    /\ Cardinality(timers) <= 1
    /\ \A t \in timers :
           /\ t.id = seedPhraseExpiryTimerId
           /\ sessionClock # Null => t.remaining = Threshold - sessionClock[1].elapsed
    /\ (SessionRunning /\ sessionClock[1].elapsed < Threshold)
           => isSessionCredentials(userCredentials[1])

\* updateCredentials cancelled a pending timer that was due before the new
\* one, the time at which that timer would have fired has passed, and the
\* key is still there.
C6_Witness ==
    /\ SessionRunning
    /\ sessionClock[1].cancelled > 0
    /\ sessionClock[1].elapsed >= sessionClock[1].cancelled
    /\ isSessionCredentials(userCredentials[1])
    /\ Cardinality(timers) = 1

\* The credentials with both seed-phrase key fields cleared.
KeyCleared(credentials) ==
    IF credentials = Null THEN Null
    ELSE Some([id |-> credentials[1].id, encryptionKey |-> credentials[1].encryptionKey,
               seedPhraseEncryptionKey |-> "", seedPhraseEncryptionKey_deprecated |-> ""])

\* C7: when the session-decay timer fires (a pending timer is gone and none
\* is armed in its place), only the seed-phrase key fields of the credentials
\* are cleared: id, encryptionKey, the record, the pending wallet and the
\* store are unchanged; and every later change of the record made with
\* credentials is saved under the id and encryption key of the credentials.
C7_TimerFireFrame ==
    [][/\ Cardinality(timers') < Cardinality(timers)
           => /\ userCredentials' = KeyCleared(userCredentials)
              /\ UNCHANGED <<id, record, pendingWallet, walletStore>>
       /\ (record' # record /\ userCredentials # Null /\ userCredentials' # Null
               /\ id' = id)
           => walletStore'[id] = IF record' = Null THEN Null
                                 ELSE Some([key |-> EncryptionKeyOf(id),
                                            record |-> record'[1]])
      ]_vars

\* The timer has fired on a running session, the pending wallet is still
\* there, and the record saved in the store holds a permission.
C7_Witness ==
    /\ sessionClock # Null
    /\ sessionClock[1].withKey
    /\ sessionClock[1].elapsed >= Threshold
    /\ timers = {}
    /\ userCredentials = Some(BareCredentialsOf("u1"))
    /\ pendingWallet # Null
    /\ record # Null
    /\ record[1].permissions # <<>>
    /\ walletStore[id] = Some([key |-> "ek-u1", record |-> record[1]])

\* What the five secret-reading operations answer a call with this context.
SecretResults(context) ==
    {getPendingRecoveryPhrase_result(context)}
        \cup {getRecoveryPhrase_result(context, g) : g \in Addresses}
        \cup {verifyRecoveryPhrase_result(context, g, v) :
                  g \in Addresses, v \in {"phrase", "other"}}
        \cup {getPrivateKey_result(context, a) : a \in AddressInputs}
        \cup {verifyPrivateKey_result(context, a, v) :
                  a \in AddressInputs, v \in {"key", "other"}}

\* C8: in every reachable state in which the credentials are null or their
\* seed-phrase key is cleared, getRecoveryPhrase, verifyRecoveryPhrase,
\* getPrivateKey, verifyPrivateKey and getPendingRecoveryPhrase fail for every
\* caller; for an internal caller the error is SessionExpired when a record
\* exists (RecordNotFound otherwise), and SessionExpired in both cases for
\* getPendingRecoveryPhrase.
C8_SecretsNeedSession ==
    (userCredentials = Null \/ userCredentials[1].seedPhraseEncryptionKey = "") =>
        /\ \A context \in Contexts : \A result \in SecretResults(context) :
               result.err # ""
        /\ \A context \in InternalContexts :
               /\ getPendingRecoveryPhrase_result(context).err = "SessionExpired"
               /\ \A result \in SecretResults(context) :
                      result.err = IF record # Null THEN "SessionExpired"
                                   ELSE IF result = getPendingRecoveryPhrase_result(context)
                                        THEN "SessionExpired" ELSE "RecordNotFound"

\* The key is cleared while a mnemonic wallet is pending and the record holds
\* a mnemonic group and a private key.
C8_Witness ==
    /\ userCredentials # Null
    /\ userCredentials[1].seedPhraseEncryptionKey = ""
    /\ pendingWallet # Null
    /\ pendingWallet[1].kind = "mnemonic"
    /\ record # Null
    /\ \E g \in Addresses : HasMnemonicGroup(record[1], g)
    /\ HasPrivateKey(record[1], "0xCd")
    /\ getRecoveryPhrase_result(INTERNAL_SYMBOL_CONTEXT, "0xAb").err = "SessionExpired"

\* The last step resolved a /requestAccounts dialog and settled the call.
RequestAccountsResolved ==
    /\ settled # Null
    /\ settled[1].method = "eth_requestAccounts"
    /\ settled[1].how = "resolve"
    /\ settled[1].result # Unsettled

\* C9: when the /requestAccounts dialog that eth_requestAccounts opened for
\* origin O resolves with {address: A, origin: O}, the active address is A,
\* the permission O -> A is granted, the call resolves with [lowercase(A)],
\* and eth_accounts from O returns the one-element list holding A in lower
\* case.
C9_RequestAccountsGrant ==
    RequestAccountsResolved =>
        LET o == settled[1].origin
            a == settled[1].address
        IN  /\ normalizeAddress(readCurrentAddress) = normalizeAddress(a)
            /\ Available(record, a, o)
            /\ settled[1].result = Ok(<<toLowerCase(a)>>)
            /\ eth_accounts([origin |-> o]) = Ok(<<toLowerCase(a)>>)

\* The error each method's call fails with when its dialog is dismissed.
RejectionOf(method) ==
    IF method \in {"eth_requestAccounts", "wallet_addEthereumChain"}
    THEN "UserRejected" ELSE "UserRejectedTxSignature"

\* C10: for every dialog-backed public call, the dismissal of its dialog
\* makes the call fail with UserRejected (eth_requestAccounts,
\* wallet_addEthereumChain) or UserRejectedTxSignature (eth_sendTransaction,
\* personal_sign, eth_signTypedData_v4) and no other error, and neither the
\* step that opens the dialog nor the one that dismisses it changes the
\* record (permissions, active address, chain bindings), the store or the
\* chain registry.
C10_DismissalRejects ==
    [][/\ (settled' # Null /\ settled'[1].how = "dismiss")
           => /\ settled'[1].method \in {"eth_requestAccounts", "wallet_addEthereumChain",
                                         "eth_sendTransaction", "personal_sign",
                                         "eth_signTypedData_v4"}
              /\ settled'[1].result = Err(RejectionOf(settled'[1].method))
              /\ UNCHANGED <<record, walletStore, networks>>
       /\ (\E d \in dialogs' : d \notin dialogs)
           => UNCHANGED <<record, walletStore, networks>>
      ]_vars

\* A personal_sign call by an origin that holds a permission on a custom
\* chain has just been rejected by the dismissal of its dialog.
C10_Witness ==
    /\ settled # Null
    /\ settled[1].how = "dismiss"
    /\ settled[1].method = "personal_sign"
    /\ settled[1].result.err = "UserRejectedTxSignature"
    /\ BoundToCurrent(settled[1].origin)
    /\ record[1].permissions[settled[1].origin].chain = CustomChain

\* C11: an eth_sendTransaction request whose transaction names a chain id
\* other than the one its origin is bound to fails without a /sendTransaction
\* dialog being opened for it: every dialog a step opens on that route carries
\* a transaction with no chain id or with the chain id bound to its origin.
C11_NoDialogOnChainMismatch ==
    [][\A d \in dialogs' \ dialogs :
          d.route = "/sendTransaction"
              => d.param \in {"", getChainIdForOrigin(d.origin)}]_vars

\* The UI as caller of the pipeline.
UI == [origin |-> INTERNAL_ORIGIN]

\* The transaction's sender is the active address.
SenderIsActive(transaction) ==
    /\ transaction.from # ""
    /\ readCurrentAddress # ""
    /\ normalizeAddress(transaction.from) = normalizeAddress(readCurrentAddress)

\* The last step was a pipeline call through this entry point.
Called(method) == settled # Null /\ settled[1].how = "call" /\ settled[1].method = method

\* C12: chain resolution of the signing pipeline, for every initiator and
\* transaction chain id of a call whose sender is the active address.  An
\* internal initiator without a chain id fails; an external initiator with a
\* chain id other than its origin's fails; an external initiator without a
\* chain id proceeds with its origin's chain id; every other call proceeds
\* with the transaction's chain id.  A call that fails here asks for no
\* signer; one that proceeds gets its signer for exactly the resolved chain
\* id, whenever the record holds the key and the chain is registered.
C12_ChainResolution ==
    \A i \in Initiators, c \in TxChainIds, from \in AddressInputs, accepted \in BOOLEAN :
        LET out == signAndSendTransaction_outcome(UI, Some(Tx(from, c)), i, accepted)
            bound == getChainIdForOrigin(UrlOrigin(i))
            expected == IF i = INTERNAL_ORIGIN THEN c
                        ELSE IF c = "" THEN bound
                        ELSE IF c = bound THEN c ELSE ""
        IN  SenderIsActive(Tx(from, c)) =>
              /\ out.effects.chainId = expected
              /\ expected = "" => out.result.err # "" /\ out.effects = NoEffects
              /\ out.effects.signer \in {"", expected}
              /\ (expected # "" /\ HasPrivateKey(record[1], readCurrentAddress)
                    /\ \E n \in networks : getChainId(n) = expected)
                   => out.effects.signer = expected

\* A call from the swap page of an origin bound to polygon, its sender the
\* active address, has got its signer for 0x89; so does the same call without
\* a chain id.
C12_Witness ==
    /\ Called("signAndSendTransaction")
    /\ settled[1].origin = SwapPage
    /\ getChainIdForOrigin("https://a.example") = "0x89"
    /\ settled[1].effects.signer = "0x89"
    /\ signAndSendTransaction_outcome(UI, Some(Tx(settled[1].address, "")), SwapPage, TRUE).effects
         = settled[1].effects

\* C13: signAndSendTransaction with a transaction whose from is missing or is
\* not the active address (compared without regard to letter case) fails
\* before a signer is asked for: no chain id is resolved, nothing is handed to
\* a provider and no transactionSent event is emitted.
C13_SenderChecked ==
    \A context \in TxCallers, i \in Initiators, c \in TxChainIds,
       from \in AddressInputs \cup {""}, accepted \in BOOLEAN :
        LET out == signAndSendTransaction_outcome(context, Some(Tx(from, c)), i, accepted)
        IN  ~SenderIsActive(Tx(from, c)) => out.result.err # "" /\ out.effects = NoEffects

\* The UI has sent a transaction of 0xCd on a registered chain while 0xAb,
\* whose key the record holds, is active: the call failed and did nothing.
C13_Witness ==
    /\ Called("signAndSendTransaction")
    /\ settled[1].address = "0xCd"
    /\ readCurrentAddress = "0xAb"
    /\ HasPrivateKey(record[1], "0xAb")
    /\ settled[1].result = Err("Error")
    /\ settled[1].effects = NoEffects

\* C14: every call of the pipeline, through signAndSendTransaction or
\* sendSignedTransaction: if the provider takes the transaction the call
\* returns having emitted exactly one transactionSent event, which carries
\* the call's initiator; if the provider refuses it the call fails with the
\* normalised error and no event; a call that returns has submitted; and no
\* call, failed or not, changes the record or the store.
C14_TransactionSent ==
    [][\A method \in {"signAndSendTransaction", "sendSignedTransaction"} :
          Called(method)' =>
              LET call == settled'[1] IN
              /\ call.result.err = ""
                   => call.effects.submitted
                      /\ call.effects.transactionSent = <<call.origin>>
              /\ call.result.err # "" => call.effects.transactionSent = <<>>
              /\ (call.effects.submitted /\ call.result.err # "")
                   => call.result = Err("EthersError")
              /\ record' = record
              /\ walletStore' = walletStore]_vars

\* A transaction was handed to the provider and refused.
C14_Witness ==
    /\ Called("sendSignedTransaction")
    /\ settled[1].effects.submitted
    /\ settled[1].result = Err("EthersError")
    /\ record # Null

\* personal_sign parameter lists with no address, two addresses, one
\* parameter, and the message first or second.
SignParamLists ==
    PersonalSignParams
        \cup {<<a, m>> : a \in AddressInputs, m \in Messages \cup {"bye", ""}}
        \cup {<<"hello", "bye">>, <<"hello">>, <<"0xAb">>, <<"0xAb", "0xCd">>,
              <<"0xCd", "0xAb">>, <<>>}

\* C15: personal_sign is symmetric in its first two parameters: for every
\* address a, every message m that is not an address and every caller, the
\* calls with [a, m] and with [m, a] have the same outcome: the same failure,
\* or a dialog on the same route with the same message for the same origin.
C15_PersonalSignSymmetric ==
    \A context \in PublicCallers \cup {[origin |-> NoOrigin]},
       a \in AddressInputs, m \in Messages \cup {"bye", ""}, r \in RequestIds :
        /\ personal_sign_result(context, <<a, m>>) = personal_sign_result(context, <<m, a>>)
        /\ IsPending(personal_sign_result(context, <<a, m>>))
             => personal_sign_request(context, r, <<a, m>>)
                  = personal_sign_request(context, r, <<m, a>>)

\* A signing dialog with the message "hello" is open for an origin bound to
\* the active address 0xCd: the one that [hello, 0xCd] and [0xCd, hello] open.
C15_Witness ==
    \E d \in dialogs :
        /\ d.method = "personal_sign"
        /\ normalizeAddress(readCurrentAddress) = "0xcd"
        /\ IsPending(personal_sign_result([origin |-> d.origin], <<"0xCd", "hello">>))
        /\ d = Raced(personal_sign_request([origin |-> d.origin], d.id, <<"0xCd", "hello">>))
        /\ d = Raced(personal_sign_request([origin |-> d.origin], d.id, <<"hello", "0xCd">>))

\* C16: personal_sign asks for a signing dialog only if one of its first two
\* parameters is an address, that address is the active address (compared
\* without regard to letter case) and the calling origin is bound to the
\* active address; if neither parameter is an address, or the address found
\* is not the active one, the call fails and asks for no dialog.
C16_PersonalSignGuards ==
    \A context \in PublicCallers, params \in SignParamLists :
        LET result == personal_sign_result(context, params)
            first == Param(params, 1)
            second == Param(params, 2)
            found == IF isEthereumAddress(second) THEN second
                     ELSE IF isEthereumAddress(first) THEN first ELSE ""
            active(x) == /\ isEthereumAddress(x)
                         /\ readCurrentAddress # ""
                         /\ normalizeAddress(x) = normalizeAddress(readCurrentAddress)
        IN  /\ IsPending(result)
                => (active(first) \/ active(second)) /\ BoundToCurrent(context.origin)
            /\ (found = "" \/ ~active(found)) => result.err # ""

\* An origin bound to the active address calls with [0xAb, 0xCd]: the first
\* parameter is the active address, the address found is the second, and the
\* call fails; with the active address second its dialog is open.
C16_Witness ==
    \E d \in dialogs :
        /\ d.method = "personal_sign"
        /\ BoundToCurrent(d.origin)
        /\ normalizeAddress(readCurrentAddress) = "0xab"
        /\ personal_sign_result([origin |-> d.origin], <<"0xAb", "0xCd">>) = Err("Error")

\* A step that removes the permission of origin o alone.
RemovesPermissionOf(o) ==
    \E context \in Contexts, a \in Addresses \cup {""} : Wallet_removePermission(context, o, a)

\* The id of a chain, hexadecimal and decimal, as the provider reports it.
ReportedIds(chain) ==
    IF chain = Ethereum THEN <<"0x1", "1">> ELSE <<"0x89", "137">>

\* C17: eth_chainId, and net_version in decimal, answer with the chain bound
\* to the calling origin, with or without an account permission: the default
\* chain for an origin without a binding; after setChainForOrigin(C, O), by
\* the UI for any chain or by the origin itself, the id of C for O; and a
\* step that grants or removes an account permission of another origin
\* leaves the answer for O as it was.
C17_ChainIdOfOrigin ==
    [][\A o \in Origins :
          LET before == eth_chainId([origin |-> o])
              after == eth_chainId([origin |-> o])'
              version == net_version([origin |-> o])'
              bound == IF record' # Null /\ o \in DOMAIN record'[1].permissions
                       THEN record'[1].permissions[o].chain ELSE Ethereum
          IN  /\ after = Ok(<<ReportedIds(bound)[1]>>)
              /\ version = Ok(<<ReportedIds(bound)[2]>>)
              /\ \A c \in Chains :
                    bound = c \/ ~(\E context \in Contexts : switchChainForOrigin(context, c, o))
              /\ after = before
                    \/ ~(\E p \in Origins \ {o} : Grants(p) \/ RemovesPermissionOf(p))
      ]_vars

\* An origin that holds no account permission is bound to polygon and is
\* answered 0x89 and 137, while the other origin holds an account permission.
C17_Witness ==
    \E o, p \in Origins :
        /\ o # p
        /\ record # Null
        /\ o \in DOMAIN record[1].permissions
        /\ record[1].permissions[o].address = ""
        /\ Available(record, "0xAb", p)
        /\ eth_chainId([origin |-> o]) = Ok(<<"0x89">>)
        /\ net_version([origin |-> o]) = Ok(<<"137">>)

\* C18: in every reachable state the chain of every permission entry is a
\* registered chain: no sequence of switchChainForOrigin,
\* wallet_switchEthereumChain, addEthereumChain and removeEthereumChain leaves
\* an origin bound to a chain the registry does not hold.
C18_ChainsRegistered ==
    record # Null =>
        \A o \in DOMAIN record[1].permissions :
            record[1].permissions[o].chain \in networks

\* The chain a chain id parameter names, whatever way it is written, and the
\* chain ids a page may pass: those of ChainIdParams and one of no chain.
NamedChain(p) ==
    CASE p \in {"0x1", "0x01"} -> Ethereum
      [] p \in {"0x89", "0x089"} -> CustomChain
      [] OTHER -> "(none)"
SwitchParams == ChainIdParams \cup {"0x5"}

\* The chain the record binds origin o to.
BoundChain(o) == getChainForOrigin(record[1], o)

\* C19: wallet_switchEthereumChain by an origin bound to the active address,
\* with the id of the registered chain the origin is already bound to,
\* returns null and is no step at all: the record is the same, nothing is
\* saved and no chainChanged is emitted.  The state being the same, a second
\* call has the same result.
C19_SwitchToSameChain ==
    \A o \in Origins, p \in SwitchParams :
        LET context == [origin |-> o] IN
        (BoundToCurrent(o) /\ NamedChain(p) = BoundChain(o) /\ BoundChain(o) \in networks)
            => /\ wallet_switchEthereumChain_result(context, p) = Ok(<<"null">>)
               /\ wallet_switchEthereumChain_record(context, p) = record
               /\ wallet_switchEthereumChain_chainChanged(context, p) = <<>>
               /\ ~ENABLED wallet_switchEthereumChain(context, p)

\* An origin bound to the active address has been switched to polygon and
\* names polygon again, written 0x089.
C19_Witness ==
    \E o \in Origins :
        /\ BoundToCurrent(o)
        /\ BoundChain(o) = CustomChain
        /\ CustomChain \in networks
        /\ wallet_switchEthereumChain_result([origin |-> o], "0x089") = Ok(<<"null">>)

\* C20: wallet_switchEthereumChain by an origin bound to the active address,
\* with a chain id that names another chain than the one it is bound to: if
\* the registry does not hold a chain of that id the call fails with
\* SwitchChainError and record and store stay as they are; if it does, the
\* call returns null, binds the origin, and only it, to that chain, saves the
\* record, emits chainChanged for that chain and origin, and opens no dialog.
C20_SwitchChain ==
    \A o \in Origins, p \in SwitchParams :
        LET context == [origin |-> o]
            after == wallet_switchEthereumChain_record(context, p)
        IN  (BoundToCurrent(o) /\ NamedChain(p) # BoundChain(o))
            => IF NamedChain(p) \in networks
               THEN /\ wallet_switchEthereumChain_result(context, p) = Ok(<<"null">>)
                    /\ after # Null
                    /\ after[1] = [record[1] EXCEPT
                                      !.permissions[o].chain = NamedChain(p)]
                    /\ wallet_switchEthereumChain_chainChanged(context, p)
                         = <<[chain |-> NamedChain(p), origin |-> o]>>
                    /\ ENABLED (/\ wallet_switchEthereumChain(context, p)
                                /\ dialogs' = dialogs
                                /\ walletStore' = updateWalletStore(after[1]))
               ELSE /\ wallet_switchEthereumChain_result(context, p)
                         = Err("SwitchChainError")
                    /\ after = record
                    /\ wallet_switchEthereumChain_chainChanged(context, p) = <<>>
                    /\ ~ENABLED wallet_switchEthereumChain(context, p)

\* The switch that follows an approved /addEthereumChain dialog of an origin
\* bound to the active address has failed with SwitchChainError, the chain
\* not being registered; the origin is bound to the chain it was bound to.
C20_Witness ==
    /\ settled # Null
    /\ settled[1].method = "wallet_addEthereumChain"
    /\ settled[1].how = "resolve"
    /\ settled[1].result = Err("SwitchChainError")
    /\ BoundToCurrent(settled[1].origin)
    /\ BoundChain(settled[1].origin) = Ethereum

\* C21: for every origin that calls wallet_addEthereumChain with a chain,
\* once its /addEthereumChain dialog has resolved with the chain registered,
\* the switch that follows has bound the origin to the chain and the call has
\* completed with null, so that eth_chainId from the origin answers the
\* chain's id.
C21_AddChainSwitches ==
    (/\ settled # Null
     /\ settled[1].method = "wallet_addEthereumChain"
     /\ settled[1].how = "resolve"
     /\ CustomChain \in networks)
        => /\ settled[1].result = Ok(<<"null">>)
           /\ record # Null
           /\ BoundChain(settled[1].origin) = CustomChain
           /\ eth_chainId([origin |-> settled[1].origin]) = Ok(<<"0x89">>)

\* The dialogs that the public controller opens.
ControllerRoutes ==
    {"/requestAccounts", "/sendTransaction", "/signTypedData", "/siwe",
     "/signMessage", "/addEthereumChain"}

\* C22: every dialog opened by the public controller is raced against the
\* phishing check of its origin: while it is open its check is running or has
\* given a verdict that does not block; and a step that rejects a dialog with
\* UserRejected on a verdict leaves the origin blocked.
C22_EveryDialogRaced ==
    /\ \A d \in dialogs :
          d.route \in ControllerRoutes => d.check \in {"pending", "done"}
    /\ (settled # Null /\ settled[1].how = "reject")
          => /\ settled[1].result = Err("UserRejected")
             /\ settled[1].origin \in blockedOrigins

\* The wildcard entry of the manager's providerInjection (null: none).
WildcardEntry ==
    IF providerInjection # Null /\ AllUrls \in DOMAIN providerInjection[1]
    THEN Some(providerInjection[1][AllUrls]) ELSE Null

\* C23: for the map the manager holds and the present time, getMatches gives
\* the universal pattern '<all_urls>' when the wildcard has no entry, no
\* matches when the wildcard's expiry is null or in the future, and the
\* universal pattern again when the wildcard's expiry has passed.
C23_GetMatches ==
    LET matches == getMatches(providerInjection, now) IN
    /\ WildcardEntry = Null => matches = Some(<<"<all_urls>">>)
    /\ (WildcardEntry # Null /\ WildcardEntry[1].expires = Null)
          => matches = NOTHING_MATCHES
    /\ (WildcardEntry # Null /\ WildcardEntry[1].expires # Null
          /\ WildcardEntry[1].expires[1] > now)
          => matches = NOTHING_MATCHES
    /\ (WildcardEntry # Null /\ WildcardEntry[1].expires # Null
          /\ WildcardEntry[1].expires[1] < now)
          => matches = Some(<<"<all_urls>">>)

\* The entry the manager's providerInjection holds for pattern k (null: none).
EntryOf(k) ==
    IF providerInjection # Null /\ k \in DOMAIN providerInjection[1]
    THEN Some(providerInjection[1][k]) ELSE Null

\* C24 as stated: the exclude list holds exactly the non-wildcard patterns
\* whose expiry is not null and has not yet passed, normalized to a path
\* wildcard; a null-expiry entry, an expired entry and the wildcard are never
\* in it.
C24_ExcludePendingOnly ==
    LET excludeMatches == getExcludeMatches(providerInjection, now) IN
    excludeMatches # Null =>
        \A k \in Patterns :
            href(k) \in excludeMatches[1]
                <=> /\ k # AllUrls
                    /\ EntryOf(k) # Null
                    /\ EntryOf(k)[1].expires # Null
                    /\ EntryOf(k)[1].expires[1] >= now

\* C24, amended: there is no exclude list when the manager holds no map;
\* else the list holds exactly the non-wildcard patterns whose expiry is null
\* or is not earlier than the present time, each normalized to a path
\* wildcard, and nothing else: an entry whose expiry is earlier than the
\* present time and the wildcard are never in it.
C24_ExcludeMatches ==
    LET excludeMatches == getExcludeMatches(providerInjection, now) IN
    /\ excludeMatches = Null <=> providerInjection = Null
    /\ excludeMatches # Null =>
        /\ \A k \in Patterns :
              href(k) \in excludeMatches[1]
                <=> /\ k # AllUrls
                    /\ EntryOf(k) # Null
                    /\ \/ EntryOf(k)[1].expires = Null
                       \/ EntryOf(k)[1].expires[1] >= now
        /\ excludeMatches[1] \subseteq {href(k) : k \in Patterns \ {AllUrls}}
        /\ AllUrls \notin excludeMatches[1]

\* The manager holds a wildcard entry and a site paused for good, and the
\* exclude list is the site's path wildcard alone.
C24_Witness ==
    /\ EntryOf(AllUrls) # Null
    /\ EntryOf(SitePattern) # Null
    /\ EntryOf(SitePattern)[1].expires = Null
    /\ getExcludeMatches(providerInjection, now) = Some({"https://a.example/*"})

\* The entries of a map whose expiry is not null and is at or before t.
Expired(pi, t) ==
    IF pi = Null THEN {}
    ELSE {k \in DOMAIN pi[1] : pi[1][k].expires # Null /\ pi[1][k].expires[1] <= t}

\* C25: removeExpiredRecords at the present time removes exactly the entries
\* of the stored map whose expiry is not null and is at or before that time,
\* leaves the entries with a null or a later expiry as they are, removes the
\* map itself when no entry is left, and changes nothing when run again.
C25_RemoveExpiredRecords ==
    LET after == removeExpiredRecords_draft(preferences, now)
        before == IF preferences = Null THEN <<>> ELSE preferences[1]
        left == DOMAIN before \ Expired(preferences, now)
    IN
    /\ after # Null => /\ DOMAIN after[1] = left
                       /\ \A k \in left : after[1][k] = before[k]
                       /\ left # {}
    /\ after = Null <=> left = {}
    /\ removeExpiredRecords_draft(after, now) = after

\* The stored map holds an entry that expires now and a site paused for good:
\* the sweep removes the first and keeps the second.
C25_Witness ==
    /\ preferences # Null
    /\ DOMAIN preferences[1] = Patterns
    /\ preferences[1][AllUrls].expires = Some(now)
    /\ preferences[1][SitePattern].expires = Null
    /\ removeExpiredRecords_draft(preferences, now)
           = Some([k \in {SitePattern} |-> [expires |-> Null]])

\* C26: the pending wallet is discarded on session reset: in the state a
\* resetCredentials call leaves, getPendingWallet answers null to the UI, so
\* that the wallet staged before cannot be committed by savePendingWallet.
C26_PendingDiscardedOnReset ==
    [][(userCredentials # Null /\ userCredentials' = Null)
          => /\ getPendingWallet_result(UI)' = Ok(<<"null">>)
             /\ pendingWallet' = Null]_vars

\* C30: every operation that changes the record persists it before it
\* returns: in the state a step that changed the in-memory record leaves, the
\* store holds that same record under the wallet id.
C30_RecordPersisted ==
    [][(record' # record /\ record' # Null)
          => /\ id' \in UserIds
             /\ walletStore'[id'] # Null
             /\ walletStore'[id'][1].record = record'[1]]_vars

AlarmTasks == {"setAndDiscardAlarms", "create"}

\* A step in which a call of setAndDiscardAlarms runs to its end.
Reconciled ==
    \E i \in DOMAIN tasks :
        /\ tasks[i].kind \in AlarmTasks
        /\ tasks' = Remaining(i)

\* C27: when the reconciliation that follows a preference change has run to
\* its end, with the manager holding the stored map and no other
\* reconciliation under way: if an entry has a non-null expiry, the one
\* provider-injection alarm is scheduled at the least of the expiries, also
\* when a later expiry was added while the alarm of an earlier one was
\* scheduled; else no alarm is scheduled.
C27_AlarmAtEarliestExpiry ==
    [][(/\ Reconciled
        /\ providerInjection' = preferences'
        /\ \A j \in DOMAIN tasks' : tasks'[j].kind \notin AlarmTasks \cup {"handleChange"})
          => alarms' = IF requiredAlarms(preferences') # {}
                       THEN Some(Min(requiredAlarms(preferences')))
                       ELSE Null]_vars

\* A step in which a call of update() runs to its end.
Updated ==
    \E i \in DOMAIN tasks :
        /\ tasks[i].kind = "update"
        /\ tasks' = Remaining(i)

\* C28: when the last pending update has run to its end, with the manager
\* holding the stored map: the content script is registered if and only if
\* getMatches() is not 'no matches', and the registration carries the matches
\* and the exclude list of that map, as they were when it was made.
C28_RegisteredIffMatches ==
    [][(/\ Updated
        /\ providerInjection' = preferences'
        /\ \A j \in DOMAIN tasks' : tasks'[j].kind \notin {"update", "handleChange"})
          => /\ scripts' # Null <=> getMatches(providerInjection', now') # NOTHING_MATCHES
             /\ scripts' # Null
                  => \E t \in 0 .. now' :
                        /\ Some(scripts'[1].matches) = getMatches(providerInjection', t)
                        /\ scripts'[1].excludeMatches
                               = getExcludeMatches(providerInjection', t)]_vars

\* C29: once the manager has been activated over the stored map and none of
\* its calls that read the preferences or set the alarm is still under way,
\* a stored entry with a non-null expiry has the wake alarm scheduled, at the
\* least of the stored expiries when none of them is due, so that the sweep
\* comes without a further change of the preferences.
C29_AlarmAfterRestart ==
    (/\ activated
     /\ \A j \in DOMAIN tasks : tasks[j].kind \notin AlarmTasks \cup {"handleChange"}
     /\ requiredAlarms(preferences) # {})
        => /\ alarms # Null
           /\ Min(requiredAlarms(preferences)) > now
                 => alarms = Some(Min(requiredAlarms(preferences)))

\* C31: when the record cannot be persisted because the credentials are
\* null, a record-mutating operation reports the failure to its caller: with
\* a record in memory and no credentials, acceptOrigin, removePermission and
\* removeAllOriginPermissions called by the UI end with an error.
C31_SaveFailurePropagates ==
    (userCredentials = Null /\ record # Null)
        => /\ acceptOrigin_result(UI, "https://a.example", "0xAb").err # ""
           /\ removePermission_result(UI, "https://a.example", "").err # ""
           /\ removeAllOriginPermissions_result(UI).err # ""

\* A step in which the /requestAccounts dialog of an account request is
\* resolved and its onResolve runs to the end.
AccountsResolved ==
    /\ settled' # Null
    /\ settled'[1].method = "eth_requestAccounts"
    /\ settled'[1].how = "resolve"
    /\ settled'[1].result # Unsettled

\* C32: with account requests of different origins pending at the same time
\* and resolved in any order, every resolution works on the active address
\* and the permissions of its own time: the call resolves with exactly the
\* lower-cased address approved in its dialog, the record then binds its
\* origin to that address and has that address active, and the permission of
\* every other origin is as it was, so that after two resolutions the record
\* holds both permissions and the address resolved last is active.
C32_OverlappingRequests ==
    [][AccountsResolved
          => /\ settled'[1].result = Ok(<<toLowerCase(settled'[1].address)>>)
             /\ record' # Null
             /\ record'[1].currentAddress = settled'[1].address
             /\ isAccountAvailable(record'[1], settled'[1].address, settled'[1].origin)
             /\ \A o \in Origins \ {settled'[1].origin} :
                   (record # Null /\ o \in DOMAIN record[1].permissions)
                      => /\ o \in DOMAIN record'[1].permissions
                         /\ record'[1].permissions[o] = record[1].permissions[o]]_vars

\* The request of b.example has been resolved with 0xCd after the request of
\* a.example was resolved with 0xAb: both permissions are held and 0xCd is
\* the active address.
C32_Witness ==
    /\ settled # Null
    /\ settled[1].method = "eth_requestAccounts"
    /\ settled[1].how = "resolve"
    /\ settled[1].origin = "https://b.example"
    /\ settled[1].result = Ok(<<"0xcd">>)
    /\ record # Null
    /\ record[1].currentAddress = "0xCd"
    /\ isAccountAvailable(record[1], "0xAb", "https://a.example")
    /\ isAccountAvailable(record[1], "0xCd", "https://b.example")

\* C35: an account request whose dialog has been resolved or dismissed is
\* settled, with a list of accounts or with an error, also when the dialog
\* was resolved with no address, with no origin or with the origin of
\* another request.
C35_AccountsRequestSettles ==
    (settled # Null /\ settled[1].method = "eth_requestAccounts")
        => settled[1].result # Unsettled

\* C33: a transaction asked for by an origin through eth_sendTransaction is
\* submitted only while the origin is bound to the active address: when the
\* UI has submitted a transaction for an initiator whose /sendTransaction
\* dialog is pending, the record binds the initiator's origin to the active
\* address.
C33_SubmittedOnlyIfBound ==
    (/\ settled # Null
     /\ settled[1].method = "signAndSendTransaction"
     /\ settled[1].how = "call"
     /\ settled[1].effects.submitted
     /\ settled[1].origin # INTERNAL_ORIGIN
     /\ \E d \in dialogs : /\ d.route = "/sendTransaction"
                           /\ d.origin = UrlOrigin(settled[1].origin))
        => allowedOrigin([origin |-> UrlOrigin(settled[1].origin)],
                         readCurrentAddress) = "true"

\* The capability list wallet_getPermissions answers an origin with: the
\* single eth_accounts capability when the origin is bound to the active
\* address, the empty list otherwise.
GetPermissionsAnswers ==
    \A context \in PublicCallers :
        context.origin # NoOrigin =>
            wallet_getPermissions(context) =
                IF /\ record # Null
                   /\ readCurrentAddress # ""
                   /\ isAccountAvailable(record[1], readCurrentAddress,
                                         context.origin)
                THEN Ok(<<"eth_accounts">>) ELSE Ok(<<>>)

\* C34: a wallet_requestPermissions call that fails with InvalidParams has
\* opened no dialog and leaves the permission map and the active address as
\* they were; and wallet_getPermissions answers with the single eth_accounts
\* capability exactly when the calling origin is bound to the active address,
\* with the empty list otherwise.
C34_InvalidParamsChangesNothing ==
    [][/\ GetPermissionsAnswers
       /\ (/\ settled' # Null
           /\ settled'[1].method = "wallet_requestPermissions"
           /\ settled'[1].result = Err("InvalidParams"))
           => /\ settled'[1].how # "resolve"
              /\ record' = record
      ]_vars

\* The record loaded after the step binds the origin of every one of the
\* events to the chain of the event.
BoundWhenEmitted(events) ==
    \A i \in DOMAIN events :
        record' # Null
            => getChainForOrigin(record'[1], events[i].origin) = events[i].chain

\* C36: whenever the wallet emits chainChanged(chain, origin), from
\* setChainForOrigin or from addEthereumChain, with a record loaded, the
\* record binds that origin to that chain at the time of the event.
C36_ChainChangedIsBound ==
    [][/\ \A context \in Callers, c \in Chains, o \in Origins :
              switchChainForOrigin(context, c, o)
                  => BoundWhenEmitted(Wallet_setChainForOrigin_chainChanged(c, o))
       /\ \A context \in PublicCallers, p \in ChainIdParams :
              wallet_switchEthereumChain(context, p)
                  => BoundWhenEmitted(wallet_switchEthereumChain_chainChanged(context, p))
       /\ \A context \in Callers, o \in Origins :
              addEthereumChain(context, CustomChain, o)
                  => BoundWhenEmitted(addEthereumChain_chainChanged(context, CustomChain, o))
      ]_vars

\* The setChainForOrigin half of C36 alone.
SetChainForOriginBinds ==
    [][\A context \in Callers, c \in Chains, o \in Origins :
          switchChainForOrigin(context, c, o)
              => BoundWhenEmitted(Wallet_setChainForOrigin_chainChanged(c, o))
      ]_vars

\* The step changes the active address of the record from one address to
\* another and nothing else of it, and the origin holds no account permission.
ActiveAddressChangesFor(origin) ==
    /\ record # Null /\ record' # Null
    /\ record[1].currentAddress # "" /\ record'[1].currentAddress # ""
    /\ record[1].currentAddress # record'[1].currentAddress
    /\ record' = Some(setCurrentAddress(record[1], record'[1].currentAddress))
    /\ \A a \in Addresses : ~isAccountAvailable(record[1], a, origin)

\* eth_signTypedData_v4 answers an origin without an account permission the
\* same way whichever address is active.
TypedDataIndependentOfActiveAddress ==
    [][\A context \in PublicCallers :
          ActiveAddressChangesFor(context.origin)
              => \A a \in AddressInputs :
                     eth_signTypedData_v4_result(context, a)'
                         = eth_signTypedData_v4_result(context, a)
      ]_vars

\* C37: for an origin that holds no account permission, the outcome of
\* personal_sign and of eth_signTypedData_v4 is the same whichever address is
\* active: the call fails with the same kind of error before and after the
\* active address changes.
C37_OutcomeIndependentOfActiveAddress ==
    [][\A context \in PublicCallers :
          ActiveAddressChangesFor(context.origin)
              => /\ \A ps \in PersonalSignParams :
                        personal_sign_result(context, ps)'
                            = personal_sign_result(context, ps)
                 /\ \A a \in AddressInputs :
                        eth_signTypedData_v4_result(context, a)'
                            = eth_signTypedData_v4_result(context, a)
      ]_vars

\* The hrefs an exclude list names: none when there is no list.
Excluded(excludeMatches) ==
    IF excludeMatches = Null THEN {} ELSE excludeMatches[1]

\* The expiry sweep leaves getMatches as it was.
SweepKeepsMatches ==
    getMatches(removeExpiredRecords_draft(preferences, now), now)
        = getMatches(preferences, now)

\* The expiry sweep leaves the excluded hrefs as they were.
SweepKeepsExcludeMatches ==
    Excluded(getExcludeMatches(removeExpiredRecords_draft(preferences, now), now))
        = Excluded(getExcludeMatches(preferences, now))

\* C38: the expiry sweep is observationally neutral: for every map and every
\* time now, a time equal to the expiry of an entry included, getMatches and
\* getExcludeMatches evaluated at now give the same result on the map before
\* removeExpiredRecords and on the map after it.
C38_SweepIsNeutral ==
    /\ SweepKeepsMatches
    /\ SweepKeepsExcludeMatches

\* C39: after any sequence of updateCredentials calls, overlapping ones whose
\* store reads complete out of order included, once every call has completed
\* the in-memory record is the record the store holds for the id of the
\* current (last) credentials; and recordUpdated is emitted only when a
\* record was loaded.
C39_RecordOfLastCredentials ==
    /\ (reads = <<>> /\ userCredentials # Null)
           => record = readWalletStore(walletStore, id)
    /\ \A i \in DOMAIN reads :
           reads[i].stage = "reading"
               => (syncWithWalletStore_recordUpdated(i)
                      <=> readWalletStore(walletStore, reads[i].walletId) # Null)

\* Without an active session every operation behind ensureActiveSession
\* fails with SessionExpired for the UI.
SessionEnded ==
    /\ ~ensureActiveSession(userCredentials)
    /\ uiGenerateMnemonic_result(UI) = Err("SessionExpired")
    /\ uiImportSeedPhrase_result(UI) = Err("SessionExpired")
    /\ getPendingRecoveryPhrase_result(UI) = Err("SessionExpired")
    /\ record # Null
           => \A a \in Addresses :
                 /\ getRecoveryPhrase_result(UI, a) = Err("SessionExpired")
                 /\ verifyRecoveryPhrase_result(UI, a, "phrase") = Err("SessionExpired")
                 /\ getPrivateKey_result(UI, a) = Err("SessionExpired")
                 /\ verifyPrivateKey_result(UI, a, "key") = Err("SessionExpired")

\* C40: committing a pending wallet ends the full session.  A
\* savePendingWallet call succeeds only with a pending wallet and
\* credentials (otherwise it fails and changes neither the record nor the
\* session); after it the pending wallet is null, the record contains the
\* committed group, and ensureActiveSession fails, so that uiGenerateMnemonic,
\* uiImportSeedPhrase and the recovery-phrase and private-key operations fail
\* with SessionExpired; and a session that has ended stays ended until the
\* next updateCredentials.
C40_CommitEndsSession ==
    [][/\ \A context \in Callers :
              savePendingWallet(context)
                  => /\ pendingWallet # Null
                     /\ userCredentials # Null
                     /\ pendingWallet' = Null
                     /\ record' # Null
                     /\ Group(pendingWallet[1].origin, pendingWallet[1].kind,
                              pendingWallet[1].address) \in record'[1].groups
                     /\ SessionEnded'
       /\ \A context \in Callers :
              savePendingWallet_result(context).err = ""
                  <=> (pendingWallet # Null /\ userCredentials # Null)
       /\ (~ensureActiveSession(userCredentials) /\ ensureActiveSession(userCredentials'))
              => \E c \in CredentialInputs, isNewUser \in BOOLEAN :
                     updateCredentials(c, isNewUser)
      ]_vars

\* A pending wallet has been committed under credentials that are still
\* held: the session has ended and no wallet is pending.
C40_Witness ==
    /\ record # Null
    /\ pendingWallet = Null
    /\ userCredentials # Null
    /\ sessionClock = Null
    /\ SessionEnded

====
